---- MODULE Spec2Model ----
(***************************************************************************)
(* Document structure reconstruction of ai-micro-api-doc.                  *)
(*                                                                         *)
(*   - HierarchyConverter (hierarchy_converter.py): indexing of a page's   *)
(*     elements under document-wide ids, semantic parent/child phase,      *)
(*     spatial correction phase, tree assembly, flat fallback on error.    *)
(*   - DocumentProcessor._process_with_docling_progress (base.py): the     *)
(*     per-page loop that owns one HierarchyConverter per invocation.      *)
(*   - PDFPreprocessor.process_with_fallback (pdf_preprocessor.py): the    *)
(*     ordered extraction strategies.                                      *)
(***************************************************************************)
EXTENDS Integers, Sequences, FiniteSets, TLC

(***************************************************************************)
(* Bounds of the model.                                                    *)
(***************************************************************************)
MaxElems == 3        \* elements on one page, one page looked at alone
MaxTableElems == 4   \* elements on one page with extracted tables
MaxDocElems == 2     \* elements on one page of a multi-page document
MaxPages == 2        \* pages of one document
MaxItems == 2        \* content items of a converted document
MaxBoxElems == 2     \* elements on one page whose coordinates are looked at

\* the documents in flight on the process-wide DocumentProcessor
Docs == {1, 2}

(***************************************************************************)
(* Elements of a page (layout_extractor output): type, bbox, element_id    *)
(* (eid) and lvl, the semantic_level of the element's entry in the page's  *)
(* semantic_hierarchy, 0 when the page has no semantic_hierarchy.          *)
(***************************************************************************)
ElemTypes == {"title", "text", "table", "list", "table_cell", "list_item"}

BoxOuter == <<0, 0, 200, 100>>
BoxInner == <<-5, -5, 100, 50>>
Boxes == {BoxOuter, BoxInner}

\* HierarchicalExtractor._build_semantic_hierarchy: level of a type
TypeLevel(type) ==
    CASE type = "title" -> 1
      [] type = "table" -> 2
      [] type = "heading" -> 2
      [] type = "figure" -> 2
      [] type = "text" -> 3
      [] type = "list" -> 3
      [] type = "table_cell" -> 4
      [] OTHER -> 5

\* a page whose metadata_ext carries no semantic_hierarchy (the page loop of
\* base.py passes temp_metadata, which has no "pages_hierarchical")
BareElem == [type : ElemTypes, bbox : Boxes, lvl : {0}]

\* a page whose semantic_hierarchy was built by _build_semantic_hierarchy
LevelledElem ==
    {[type |-> t, bbox |-> b, lvl |-> TypeLevel(t)] : t \in ElemTypes, b \in Boxes}

\* elements of a page whose tables come from _process_table_element
TableElem ==
    {[type |-> t, bbox |-> BoxOuter, lvl |-> TypeLevel(t)] :
        t \in {"title", "text", "table", "table_cell"}}

PagesOf(E, max) == UNION {[1..n -> E] : n \in 0..max}

\* the cells that _process_table_element emits right after their table
RECURSIVE InTableGroup(_, _)
InTableGroup(raw, k) ==
    /\ k > 1
    /\ raw[k].type = "table_cell"
    /\ (raw[k - 1].type = "table" \/ InTableGroup(raw, k - 1))

\* element_id as extract_page_layout numbers the elements: one id per
\* element, except that _process_table_element gives a table the id of its
\* first cell (the cells are numbered from the table's own id)
ElementId(raw, table_ids, k) ==
    IF table_ids /\ InTableGroup(raw, k) THEN k - 1 ELSE k

WithIds(raw, table_ids) ==
    [k \in 1..Len(raw) |->
        [type |-> raw[k].type, bbox |-> raw[k].bbox, lvl |-> raw[k].lvl,
         eid |-> ElementId(raw, table_ids, k)]]

\* input of _build_hierarchical_structure, with or without semantic
\* hierarchy, with or without tables sharing an element_id
PageInputs ==
    {WithIds(raw, FALSE) : raw \in PagesOf(BareElem, MaxElems)}
    \cup {WithIds(raw, FALSE) : raw \in PagesOf(LevelledElem, MaxElems)}
    \cup {WithIds(raw, TRUE) : raw \in PagesOf(TableElem, MaxTableElems)}

\* pages of the page loop of base.py
DocInputs ==
    {WithIds(raw, FALSE) :
        raw \in PagesOf([type : ElemTypes, bbox : {BoxOuter}, lvl : {0}], MaxDocElems)}

PlainInputs ==
    {WithIds(raw, FALSE) :
        raw \in PagesOf({[type |-> "text", bbox |-> BoxOuter, lvl |-> 0]}, MaxDocElems)}

Range(s) == {s[i] : i \in DOMAIN s}

(***************************************************************************)
(* _is_contained: child inside parent, with a tolerance of 5 on each side. *)
(***************************************************************************)
Margin == 5

IsContained(parent_bbox, child_bbox) ==
    /\ child_bbox[1] >= parent_bbox[1] - Margin
    /\ child_bbox[2] >= parent_bbox[2] - Margin
    /\ child_bbox[3] <= parent_bbox[3] + Margin
    /\ child_bbox[4] <= parent_bbox[4] + Margin

(***************************************************************************)
(* Ids.  "ID-n" is <<"ID", n>>; the error fallback uses the bare list      *)
(* index, <<"idx", i>>; base.py replaces a falsy id of a croppable element *)
(* by an "auto-<page>-..." string, <<"auto", page>>.                       *)
(***************************************************************************)
SimpleId(counter0, k) == <<"ID", counter0 + k>>

(***************************************************************************)
(* Indexing loop of _build_hierarchical_structure: the counter is advanced *)
(* once per element, before any tree is assembled.                         *)
(***************************************************************************)
IndexElements(counter0, n) == counter0 + n

(***************************************************************************)
(* Semantic phase (_build_parent_child_relationships).                     *)
(* Keys of the parent/child map are positions of elements on the page      *)
(* (position k carries the key "ID-<counter0 + k>"); an absent key is the  *)
(* empty sequence.  An entry of the semantic hierarchy is named by the     *)
(* position of the element it was built from.                              *)
(***************************************************************************)
\* sort key (semantic_level, element_id)
SortsBefore(elems, a, b) ==
    \/ elems[a].lvl < elems[b].lvl
    \/ elems[a].lvl = elems[b].lvl /\ elems[a].eid < elems[b].eid

\* stable insertion of entry k
RECURSIVE InsertSorted(_, _, _)
InsertSorted(elems, s, k) ==
    IF s = <<>> THEN <<k>>
    ELSE IF SortsBefore(elems, k, Head(s)) THEN <<k>> \o s
    ELSE <<Head(s)>> \o InsertSorted(elems, Tail(s), k)

RECURSIVE SortedUpTo(_, _)
SortedUpTo(elems, k) ==
    IF k = 0 THEN <<>>
    ELSE IF elems[k].lvl > 0
         THEN InsertSorted(elems, SortedUpTo(elems, k - 1), k)
         ELSE SortedUpTo(elems, k - 1)

\* sorted(semantic_hierarchy, key=(semantic_level, element_id))
SortedHierarchy(elems) == SortedUpTo(elems, Len(elems))

\* element_id_map[element_id][0]: no key "ID-n" starts with "<type>_", so
\* the first key registered under the element_id is taken
FirstKey(elems, element_id) ==
    CHOOSE k \in 1..Len(elems) :
        /\ elems[k].eid = element_id
        /\ \A q \in 1..(k - 1) : elems[q].eid # element_id

\* inner loop over sorted_hierarchy[j..]
RECURSIVE CollectChildren(_, _, _, _)
CollectChildren(elems, sorted, level, j) ==
    IF j > Len(sorted) THEN <<>>
    ELSE LET next_level == elems[sorted[j]].lvl IN
         IF next_level > level
         THEN (IF next_level = level + 1
               THEN <<FirstKey(elems, elems[sorted[j]].eid)>>
               ELSE <<>>)
              \o CollectChildren(elems, sorted, level, j + 1)
         ELSE <<>>

\* outer loop over sorted_hierarchy[i..]
RECURSIVE SemanticFrom(_, _, _, _)
SemanticFrom(elems, sorted, i, map) ==
    IF i > Len(sorted) THEN map
    ELSE LET item == elems[sorted[i]]
             parent_key == FirstKey(elems, item.eid)
             children == CollectChildren(elems, sorted, item.lvl, i + 1)
         IN SemanticFrom(elems, sorted, i + 1,
                IF children # <<>> THEN [map EXCEPT ![parent_key] = children]
                                   ELSE map)

BuildParentChildRelationships(elems) ==
    SemanticFrom(elems, SortedHierarchy(elems), 1, [k \in 1..Len(elems) |-> <<>>])

(***************************************************************************)
(* Spatial correction phase (_add_spatial_relationships).                  *)
(***************************************************************************)
RECURSIVE RemoveFirst(_, _)
RemoveFirst(s, x) ==
    IF s = <<>> THEN <<>>
    ELSE IF Head(s) = x THEN Tail(s)
    ELSE <<Head(s)>> \o RemoveFirst(Tail(s), x)

ContainerTypes == {"table", "list"}
SpatialChildTypes == {"table_cell", "list_item"}

\* body of the inner loop for one (parent_key, child_key) pair
SpatialStep(map, elems, p, c) ==
    IF /\ c # p
       /\ IsContained(elems[p].bbox, elems[c].bbox)
       /\ elems[c].type \in SpatialChildTypes
       /\ c \notin Range(map[p])
    THEN [q \in DOMAIN map |->
            IF q = p THEN Append(map[p], c) ELSE RemoveFirst(map[q], c)]
    ELSE map

RECURSIVE SpatialChildren(_, _, _, _)
SpatialChildren(map, elems, p, c) ==
    IF c > Len(elems) THEN map
    ELSE SpatialChildren(SpatialStep(map, elems, p, c), elems, p, c + 1)

RECURSIVE SpatialParents(_, _, _)
SpatialParents(map, elems, p) ==
    IF p > Len(elems) THEN map
    ELSE IF elems[p].type \in ContainerTypes
         THEN SpatialParents(SpatialChildren(map, elems, p, 1), elems, p + 1)
         ELSE SpatialParents(map, elems, p + 1)

AddSpatialRelationships(map, elems) == SpatialParents(map, elems, 1)

(***************************************************************************)
(* Tree assembly (_build_tree_element and the two loops at the end of      *)
(* _build_hierarchical_structure).  The assembly state is                  *)
(*   proc : the `processed` set                                            *)
(*   emit : keys in the order their tree elements are created              *)
(*   kids : the `children` list of each tree element                       *)
(*   par  : the key whose id became parent_id (0 = no parent_id)           *)
(*   roots: hierarchical_elements                                          *)
(***************************************************************************)
EmptyTree(n) ==
    [proc |-> {}, emit |-> <<>>, kids |-> [k \in 1..n |-> <<>>],
     par |-> [k \in 1..n |-> 0], roots |-> <<>>]

RECURSIVE BuildTreeElement(_, _, _, _)
RECURSIVE BuildChildren(_, _, _, _)

\* variant: processed.add(simple_id) is forgotten
BuildTreeElementNoMark(k, parent, map, st) ==
    BuildChildren(k, 1, map,
        [st EXCEPT !.emit = Append(@, k),
                   !.par[k] = parent])

BuildTreeElement(k, parent, map, st) ==
    BuildChildren(k, 1, map,
        [st EXCEPT !.proc = @ \cup {k},
                   !.emit = Append(@, k),
                   !.par[k] = parent])

BuildChildren(k, j, map, st) ==
    IF j > Len(map[k]) THEN st
    ELSE LET child_key == map[k][j] IN
         IF child_key \notin st.proc
         THEN LET sub == BuildTreeElement(child_key, k, map, st) IN
              BuildChildren(k, j + 1, map,
                  [sub EXCEPT !.kids[k] = Append(@, child_key)])
         ELSE BuildChildren(k, j + 1, map, st)

IsChildSomewhere(map, k) == \E q \in DOMAIN map : k \in Range(map[q])

RECURSIVE RootLoop(_, _, _)
RootLoop(k, map, st) ==
    IF k > Len(map) THEN st
    ELSE IF k \notin st.proc /\ ~IsChildSomewhere(map, k)
         THEN LET sub == BuildTreeElement(k, 0, map, st) IN
              RootLoop(k + 1, map, [sub EXCEPT !.roots = Append(@, k)])
         ELSE RootLoop(k + 1, map, st)

RECURSIVE LeftoverLoop(_, _, _)
LeftoverLoop(k, map, st) ==
    IF k > Len(map) THEN st
    ELSE IF k \notin st.proc
         THEN LeftoverLoop(k + 1, map,
                  [st EXCEPT !.proc = @ \cup {k},
                             !.emit = Append(@, k),
                             !.roots = Append(@, k)])
         ELSE LeftoverLoop(k + 1, map, st)

BuildForest(map) ==
    LeftoverLoop(1, map, RootLoop(1, map, EmptyTree(Len(map))))

\* except-branch of _build_hierarchical_structure: every element, flat
FlatFallback(n) ==
    [proc |-> 1..n, emit |-> [k \in 1..n |-> k],
     kids |-> [k \in 1..n |-> <<>>], par |-> [k \in 1..n |-> 0],
     roots |-> [k \in 1..n |-> k]]

(***************************************************************************)
(* Coordinates.  A box is <<x1, y1, x2, y2>> in whole points.              *)
(***************************************************************************)
\* page heights: A4 as in the scenario of the spec, and US Letter
PdfHeight == 842
LetterHeight == 792
\* the height the except-branch of _build_hierarchical_structure passes
\* (842.4 in the source, in whole points here)
DefaultPageHeight == 842

\* what the detector reports, <<l, t, r, b>>: the two boxes of the
\* title/text scenario, and the title's box with t and b, or l and r,
\* the other way round
RawBoxes ==
    {<<50, 780, 300, 800>>, <<50, 700, 500, 770>>,
     <<50, 800, 300, 780>>, <<300, 780, 50, 800>>}

\* where extract_bbox_from_element finds the box
BboxMethods == {"direct", "prov"}

\* extract_bbox_from_element: a direct bbox is taken as it is; a prov bbox
\* is flipped to a top-left origin and y1, y2 are exchanged when y1 > y2
ExtractBboxFromElement(method, raw, page_height) ==
    IF method = "direct" THEN raw
    ELSE LET y1 == page_height - raw[2]
             y2 == page_height - raw[4]
         IN IF y1 > y2 THEN <<raw[1], y2, raw[3], y1>>
            ELSE <<raw[1], y1, raw[3], y2>>

\* the element boxes the hierarchy converter is given
ElemBoxes ==
    {ExtractBboxFromElement(m, raw, h) :
        m \in BboxMethods, raw \in RawBoxes, h \in {PdfHeight}}

BoxTypes == {"title", "text", "figure"}

\* pages of the page loop (no semantic hierarchy) and of
\* convert_to_frontend_hierarchy (levels of _build_semantic_hierarchy)
BoxInputs ==
    {WithIds(raw, FALSE) :
        raw \in PagesOf([type : BoxTypes, bbox : ElemBoxes, lvl : {0}], MaxBoxElems)}
    \cup {WithIds(raw, FALSE) :
        raw \in PagesOf({[type |-> t, bbox |-> b, lvl |-> TypeLevel(t)] :
                            t \in BoxTypes, b \in ElemBoxes}, MaxBoxElems)}

\* _convert_to_tree_element: the "bbox" of the tree element; a figure keeps
\* its y, any other type is flipped against the page height
ConvertToTreeElement(element, page_height) ==
    LET b == element.bbox
    IN IF element.type = "figure"
       THEN b
       ELSE <<b[1], page_height - b[4], b[3], page_height - b[2]>>

\* the boxes of the tree elements of one pass: the except-branch of
\* _build_hierarchical_structure converts with the default height
TreeBoxes(elems, fault, page_height) ==
    [k \in DOMAIN elems |->
        ConvertToTreeElement(elems[k],
            IF fault = "flat" THEN DefaultPageHeight ELSE page_height)]

(***************************************************************************)
(* State.                                                                  *)
(*   counter  : global_element_counter of each HierarchyConverter instance *)
(*   pageNo   : pages of each document already handled by the page loop    *)
(*   docPages : per document, per page of pages_data, the number of        *)
(*              elements of the page's layout and the ids of the page's    *)
(*              hierarchical_elements in the order the tree elements were  *)
(*              created (parent before child)                              *)
(*   page     : page_layout of the loop iteration that ran last, with the  *)
(*              intermediate maps of its hierarchy pass (doc = 0: none)    *)
(*   oPos, oCalls, oResult : one call of process_with_fallback             *)
(*   progress : the step values handed to the progress callback, in order  *)
(*   proc     : one call of process_document_with_progress                 *)
(*   cls      : one call of the element classification of a page           *)
(*   sect     : one call of the section detection of a document            *)
(***************************************************************************)
VARIABLES counter, pageNo, docPages, page, oPos, oCalls, oResult, proc, cls, sect,
          sse, auth, task, docRuns, progress

\* the page loop and its converters
hvars == <<counter, pageNo, docPages, page>>
\* one call of PDFPreprocessor.process_with_fallback, and the reports to
\* the progress callback it was given
ovars == <<oPos, oCalls, oResult, progress>>
\* one call of DocumentProcessor.process_document_with_progress
pvars == <<proc>>
\* one call of LayoutExtractor's classification, one of the section detection
cvars == <<cls>>
svars == <<sect>>
\* the task-status stream of the router, one authentication, one submission
\* of process_document_task, the invocations on the shared processor
avars == <<sse, auth, task, docRuns>>
vars == <<counter, pageNo, docPages, page, oPos, oCalls, oResult, proc, cls, sect,
          sse, auth, task, docRuns, progress>>

NoPage ==
    [doc |-> 0, elems |-> <<>>, fault |-> "none", semMap |-> <<>>,
     spMap |-> <<>>, tree |-> EmptyTree(0), idOf |-> <<>>,
     height |-> 0, boxes |-> <<>>]

\* variant: one converter shared by every invocation
SharedConverter(d) == 1

\* base.py 266: every invocation of _process_with_docling_progress creates
\* its own HierarchyConverter; the converter instance is named by the document
ConverterOf(d) == d

CroppableTypes == {"figure", "picture", "image", "table", "caption"}

\* base.py 359-365: a croppable top-level element whose id is falsy (the
\* integer 0) gets a generated id when the page image exists
CropId(id, type, image_exists, page_number) ==
    IF image_exists /\ type \in CroppableTypes /\ id = <<"idx", 0>>
    THEN <<"auto", page_number>>
    ELSE id

\* ids of one page: "ID-n" from the counter, or the list index in the
\* except-branch fallback
PageIds(elems, counter0, fault, image_exists, page_number) ==
    [k \in 1..Len(elems) |->
        IF fault = "flat"
        THEN CropId(<<"idx", k - 1>>, elems[k].type, image_exists, page_number)
        ELSE SimpleId(counter0, k)]

HInit ==
    /\ counter = [c \in Docs |-> 0]
    /\ pageNo = [d \in Docs |-> 0]
    /\ docPages = [d \in Docs |-> <<>>]
    /\ page = NoPage

(***************************************************************************)
(* One iteration of the page loop of _process_with_docling_progress for    *)
(* document d: convert_page_to_hierarchy on the page's elements, the id    *)
(* generation of the crop step, pages_data.append.                         *)
(* `fault` is what happens during tree assembly, after the indexing loop   *)
(* and the two map phases (which swallow their own exceptions):            *)
(*   "none"      nothing is raised                                         *)
(*   "flat"      the try-body of _build_hierarchical_structure raises and  *)
(*               its except-branch returns the flat list                   *)
(*   "abandoned" the except-branch raises as well: the except-branch of    *)
(*               convert_page_to_hierarchy returns page_layout without     *)
(*               hierarchical_elements, and pages_data gets an empty list  *)
(***************************************************************************)
Faults == {"none", "flat", "abandoned"}

ProcessPage(d, elems, fault, image_exists, page_height) ==
    /\ LET n == Len(elems)
           conv == ConverterOf(d)
           counter0 == counter[conv]
           semMap == BuildParentChildRelationships(elems)
           spMap == AddSpatialRelationships(semMap, elems)
           tree == CASE fault = "none" -> BuildForest(spMap)
                     [] fault = "flat" -> FlatFallback(n)
                     [] OTHER -> EmptyTree(n)
           idOf == PageIds(elems, counter0, fault, image_exists, pageNo[d] + 1)
       IN /\ counter' = [counter EXCEPT ![conv] =
                            IF n = 0 THEN counter0 ELSE IndexElements(counter0, n)]
          /\ pageNo' = [pageNo EXCEPT ![d] = @ + 1]
          /\ docPages' = [docPages EXCEPT ![d] =
                            Append(@, [elements |-> n,
                                       ids |-> [i \in 1..Len(tree.emit) |->
                                                   idOf[tree.emit[i]]]])]
          /\ page' = [doc |-> d, elems |-> elems, fault |-> fault,
                      semMap |-> semMap, spMap |-> spMap, tree |-> tree,
                      idOf |-> idOf, height |-> page_height,
                      boxes |-> TreeBoxes(elems, fault, page_height)]

\* the loop moves on: the page_layout of the finished iteration is dropped
NextIteration ==
    /\ page.doc # 0
    /\ page' = NoPage
    /\ UNCHANGED <<counter, pageNo, docPages>>
    /\ UNCHANGED <<ovars, pvars, cvars, svars, avars>>

\* nothing is assembled, so nothing is raised, on a page without elements
FaultChoices(elems) == IF Len(elems) = 0 THEN {"none"} ELSE Faults

\* whether page_<n>_full.png exists matters to the ids only when an id is 0
ImageChoices(elems, fault) ==
    IF fault = "flat" /\ elems[1].type \in CroppableTypes THEN BOOLEAN ELSE {FALSE}

\* the loop body runs for page_num in range(num_pages), one page at a time
ProcessAnyPage(d, num_pages, inputs, heights) ==
    /\ page.doc = 0
    /\ pageNo[d] < num_pages
    /\ UNCHANGED <<ovars, pvars, cvars, svars, avars>>
    /\ \E elems \in inputs :
        \E fault \in FaultChoices(elems) :
            \E image_exists \in ImageChoices(elems, fault) :
                \E page_height \in heights :
                    ProcessPage(d, elems, fault, image_exists, page_height)

\* convert_page_to_hierarchy on one page with arbitrary elements
PageNext ==
    \/ ProcessAnyPage(1, 1, PageInputs, {PdfHeight})
    \/ NextIteration

\* the page loop over one document
DocNext ==
    \/ ProcessAnyPage(1, MaxPages, DocInputs, {PdfHeight})
    \/ NextIteration

\* two documents in flight on the shared DocumentProcessor
ConcNext ==
    \/ \E d \in Docs : ProcessAnyPage(d, MaxPages, PlainInputs, {PdfHeight})
    \/ NextIteration

\* convert_page_to_hierarchy on one page whose boxes come from the bbox
\* extraction, under two page heights
BoxNext ==
    \/ ProcessAnyPage(1, 1, BoxInputs, {PdfHeight, LetterHeight})
    \/ NextIteration

(***************************************************************************)
(* PDFPreprocessor.process_with_fallback (pdf_preprocessor.py 63-118).     *)
(* What a converter or an external tool does with the file is an input:    *)
(* a conversion raises, ends with a status other than SUCCESS, or ends     *)
(* with SUCCESS and a DoclingDocument of some number of content items      *)
(* (Docling 2.65 always returns a DoclingDocument, so is_docling is TRUE   *)
(* in the runs enumerated below).                                          *)
(***************************************************************************)
NotRun == [status |-> "not_run", items |-> 0, is_docling |-> TRUE]

ConvRuns ==
    [status : {"raise", "failure"}, items : {0}, is_docling : {TRUE}]
    \cup [status : {"success"}, items : 0..MaxItems, is_docling : {TRUE}]

None == [kind |-> "none", items |-> 0]
DoclingDoc(conv) == [kind |-> "docling", items |-> conv.items]

\* has_content of lines 157-158 and 497-498
HasContent(conv) == conv.items > 0

\* _try_easyocr_direct: <<success, document>>
TryEasyocrDirect(conv) ==
    IF conv.status = "success"
    THEN IF conv.is_docling
         THEN IF HasContent(conv) THEN <<TRUE, DoclingDoc(conv)>>
                                  ELSE <<FALSE, None>>
         ELSE <<TRUE, DoclingDoc(conv)>>
    ELSE <<FALSE, None>>

\* _try_docling_conversion: the minimal converter, and the default
\* converter when the minimal one raised
TryDoclingConversion(minimal, dflt) ==
    IF minimal.status = "success"
    THEN IF minimal.is_docling
         THEN IF HasContent(minimal) THEN <<TRUE, DoclingDoc(minimal)>>
                                     ELSE <<FALSE, None>>
         ELSE <<TRUE, DoclingDoc(minimal)>>
    ELSE IF minimal.status = "failure"
    THEN <<FALSE, None>>
    ELSE IF dflt.status = "success"
         THEN <<TRUE, DoclingDoc(dflt)>>
         ELSE <<FALSE, None>>

\* the runs of _try_docling_conversion: the default converter runs only
\* when the minimal one raised
DoclingRuns ==
    {[minimal |-> m, dflt |-> NotRun] : m \in {c \in ConvRuns : c.status # "raise"}}
    \cup {[minimal |-> m, dflt |-> f] : m \in {c \in ConvRuns : c.status = "raise"},
                                       f \in ConvRuns}

NoDoclingRun == [minimal |-> NotRun, dflt |-> NotRun]

\* an external tool (qpdf, gs) followed by _try_docling_conversion
ToolRuns ==
    {[tool |-> t, conv |-> NoDoclingRun] : t \in {"nonzero", "raise"}}
    \cup {[tool |-> "ok", conv |-> c] : c \in DoclingRuns}

NoToolRun == [tool |-> "not_run", conv |-> NoDoclingRun]

\* _try_qpdf_preprocessing, and the body of one Ghostscript approach
TryQpdfPreprocessing(run) ==
    IF run.tool = "ok"
    THEN TryDoclingConversion(run.conv.minimal, run.conv.dflt)
    ELSE <<FALSE, None>>

\* approaches of _try_ghostscript_preprocessing (226-230)
NumApproaches == 3

\* _try_ghostscript_preprocessing: the loop from approach i on
RECURSIVE GhostscriptFrom(_, _)
GhostscriptFrom(runs, i) ==
    IF i > NumApproaches THEN <<FALSE, None>>
    ELSE LET r == TryQpdfPreprocessing(runs[i])
         IN IF r[1] THEN r ELSE GhostscriptFrom(runs, i + 1)

TryGhostscriptPreprocessing(runs) == GhostscriptFrom(runs, 1)

\* an approach runs exactly when no earlier one succeeded
GhostscriptRuns ==
    {runs \in [1..NumApproaches -> ToolRuns \cup {NoToolRun}] :
        \A i \in 1..NumApproaches :
            (runs[i] = NoToolRun)
                <=> (\E j \in 1..(i - 1) :
                        runs[j] # NoToolRun /\ TryQpdfPreprocessing(runs[j])[1])}

\* _try_docling_conversion_force_ocr: EasyOCR, then Tesseract
TryDoclingConversionForceOcr(easy, tess) ==
    IF easy.status = "success"
    THEN <<TRUE, DoclingDoc(easy)>>
    ELSE IF tess.status = "success"
         THEN <<TRUE, DoclingDoc(tess)>>
         ELSE <<FALSE, None>>

\* variant: the mock document cannot be built and None is handed back
MockDocumentNotBuilt(custom) == None

\* _create_mock_document_from_ocr: one text element per page whose OCR
\* text is not empty.  ocr_data is what _convert_to_docling_format built
\* (total_pages an int, page_results a list of dicts), so the constructor
\* does not raise and the except-branch (461-463) is not taken
MockDocument(custom) == [kind |-> "mock", items |-> custom.items]

\* _try_image_ocr_processing: custom.items counts the page images whose
\* OCR text is not empty (process_pdf_with_custom_ocr succeeds once the
\* page images exist)
TryImageOcrProcessing(run) ==
    IF run.custom.status = "success"
    THEN <<TRUE, MockDocument(run.custom)>>
    ELSE TryDoclingConversionForceOcr(run.easy, run.tess)

CustomRuns ==
    [status : {"failure"}, items : {0}, is_docling : {TRUE}]
    \cup [status : {"success"}, items : 0..MaxItems, is_docling : {TRUE}]

ImageOcrRuns ==
    {[custom |-> c, easy |-> NotRun, tess |-> NotRun] :
        c \in {x \in CustomRuns : x.status = "success"}}
    \cup {[custom |-> c, easy |-> e, tess |-> NotRun] :
        c \in {x \in CustomRuns : x.status = "failure"},
        e \in {x \in ConvRuns : x.status = "success"}}
    \cup {[custom |-> c, easy |-> e, tess |-> t] :
        c \in {x \in CustomRuns : x.status = "failure"},
        e \in {x \in ConvRuns : x.status # "success"},
        t \in ConvRuns}

\* the temporary PDFs _try_qpdf_preprocessing leaves behind: the file of
\* NamedTemporaryFile(delete=False) (183-184) is unlinked at line 215 only,
\* not before `return False, None` of a non-zero exit (201-203) and not in
\* the except-branch (219-221) a timeout or a missing qpdf ends in
QpdfTempFilesLeft(run) == IF run.tool = "ok" THEN 0 ELSE 1

\* the temporary PDFs _try_ghostscript_preprocessing leaves behind from
\* approach i on: the file of an approach is unlinked when the approach
\* returns False (240-242) and after the conversion (254), not when gs
\* times out or cannot be started and the approach raises (260-262)
RECURSIVE GhostscriptTempFilesLeft(_, _)
GhostscriptTempFilesLeft(runs, i) ==
    IF i > NumApproaches THEN 0
    ELSE (IF runs[i].tool = "raise" THEN 1 ELSE 0)
         + GhostscriptTempFilesLeft(runs, i + 1)

\* the order of process_with_fallback
StrategyOrder ==
    <<"easyocr_direct", "qpdf_docling", "ghostscript_docling", "image_ocr_docling">>

\* the temporary PDFs strategy k leaves behind when it returns
TempFilesLeft(k, run) ==
    CASE StrategyOrder[k] = "qpdf_docling" -> QpdfTempFilesLeft(run)
      [] StrategyOrder[k] = "ghostscript_docling" -> GhostscriptTempFilesLeft(run, 1)
      [] OTHER -> 0

NoResult == [success |-> FALSE, document |-> None, method_used |-> "none"]
AllFailed == [success |-> FALSE, document |-> None, method_used |-> "all_failed"]

\* the attempt records a result of process_with_fallback carries: the
\* returned tuple is (success, document, method_used) and nothing else
Attempts(res) ==
    IF "attempts" \in DOMAIN res THEN res.attempts ELSE <<>>

\* variant: the result of a strategy is not tested before the next one
PosFallingThrough(k, success) ==
    IF k < Len(StrategyOrder) THEN StrategyOrder[k + 1] ELSE "returned"

\* where process_with_fallback is after strategy k returned
PosAfter(k, success) ==
    IF success THEN "returned"
    ELSE IF k < Len(StrategyOrder) THEN StrategyOrder[k + 1] ELSE "returned"

\* _log_pdf_preprocessor_progress / _log_progress_with_timing /
\* _log_docling_progress: progress_callback(step=step, total=10, ...) for
\* each of the steps, in order
Report(steps) == progress' = progress \o steps

\* the step process_with_fallback reports before strategy k (lines 74-77,
\* 85-88, 96-99, 107-110)
StepBefore(k) == <<3, 3, 4, 5>>[k]

\* not called
OIdle ==
    /\ oPos = "idle"
    /\ oCalls = <<>>
    /\ oResult = NoResult
    /\ progress = <<>>

\* just called
OInit ==
    /\ oPos = StrategyOrder[1]
    /\ oCalls = <<>>
    /\ oResult = NoResult
    /\ progress = <<>>

\* strategy k is invoked with what its tools did (run), returns r, and
\* process_with_fallback tests r: `if success: return True, document, name`,
\* after the last one `return False, None, "all_failed"`
StrategyStep(k, run, r) ==
    /\ oCalls' = Append(oCalls, [name |-> StrategyOrder[k], run |-> <<run>>,
                                 success |-> r[1], document |-> r[2],
                                 temp_files |-> TempFilesLeft(k, run)])
    /\ oPos' = PosAfter(k, r[1])
    /\ oResult' = IF r[1]
                  THEN [success |-> TRUE, document |-> r[2],
                        method_used |-> StrategyOrder[k]]
                  ELSE IF PosAfter(k, r[1]) = "returned" THEN AllFailed
                  ELSE oResult
    /\ Report(<<StepBefore(k)>>)
    /\ UNCHANGED <<hvars, pvars, cvars, svars, avars>>

EasyocrDirectStep ==
    /\ oPos = "easyocr_direct"
    /\ \E conv \in ConvRuns : StrategyStep(1, conv, TryEasyocrDirect(conv))

QpdfStep ==
    /\ oPos = "qpdf_docling"
    /\ \E run \in ToolRuns : StrategyStep(2, run, TryQpdfPreprocessing(run))

GhostscriptStep ==
    /\ oPos = "ghostscript_docling"
    /\ \E runs \in GhostscriptRuns :
           StrategyStep(3, runs, TryGhostscriptPreprocessing(runs))

ImageOcrStep ==
    /\ oPos = "image_ocr_docling"
    /\ \E run \in ImageOcrRuns : StrategyStep(4, run, TryImageOcrProcessing(run))

OrchNext ==
    \/ EasyocrDirectStep
    \/ QpdfStep
    \/ GhostscriptStep
    \/ ImageOcrStep

(***************************************************************************)
(* DocumentProcessor.process_document_with_progress (base.py 128-193),     *)
(* with DoclingProcessor.convert_document, which calls                     *)
(* process_with_fallback, and FileManager.create_fallback_output.          *)
(* proc.pos is where the call is; proc.received is what convert_document   *)
(* handed to process_document_with_progress; proc.failed names the steps   *)
(* that raised on the way; proc.result is the returned dict and proc.exc   *)
(* the exception that left process_document_with_progress.                 *)
(* The progress callback and the logger are taken not to raise.            *)
(***************************************************************************)
MaxProgressPages == 2    \* pages of the document whose progress is reported

NoOutcome == [kind |-> "none", document |-> None, exc |-> "none"]
NoDict == [status |-> "none", processing_mode |-> "none"]

NoCall ==
    [pos |-> "idle", received |-> NoOutcome, failed |-> {},
     result |-> NoDict, exc |-> "none"]

\* not called
PIdle == proc = NoCall

\* just called
PCalled == proc = [NoCall EXCEPT !.pos = "called"]

\* lines 210-235 of convert_document: the document on success, otherwise
\* `raise RuntimeError("All PDF preprocessing and Docling conversion
\* methods failed")`, which the except-branch (237-241) logs and re-raises
ConvertDocumentOutcome(res) ==
    IF res.success
    THEN [kind |-> "document", document |-> res.document, exc |-> "none"]
    ELSE [kind |-> "raised", document |-> None, exc |-> "RuntimeError"]

\* variant: the inner except-branch lets the exception go on
InnerExceptReraise(p, step) ==
    [p EXCEPT !.pos = "raised", !.failed = @ \cup {step}, !.exc = step]

\* the inner except-branch of process_document_with_progress (178-182):
\* whatever was raised between "Attempting Docling processing" and the
\* return of _process_with_docling_progress leads to create_fallback_output
InnerExcept(p, step) ==
    [p EXCEPT !.pos = "fallback", !.failed = @ \cup {step}]

\* the outer except-branch (184-189) logs and re-raises; the finally-branch
\* (191-193) swallows what its own calls raise
OuterExcept(p, exc) ==
    [p EXCEPT !.pos = "raised", !.exc = exc]

\* lines 136-155: the existence test, create_output_directory and
\* save_original_file, all under the outer try only
CheckAndPrepare ==
    /\ proc.pos = "called"
    /\ \E exists \in BOOLEAN, stored \in BOOLEAN :
          /\ proc' = IF ~exists THEN OuterExcept(proc, "FileNotFoundError")
                     ELSE IF ~stored THEN OuterExcept(proc, "OSError")
                     ELSE [proc EXCEPT !.pos = "prepared"]
          /\ Report(IF ~exists THEN <<0, 10>>
                    ELSE IF ~stored THEN <<0, 1, 10>>
                    ELSE <<0, 1, 2>>)
    /\ UNCHANGED <<hvars, oPos, oCalls, oResult, cvars, svars, avars>>

\* lines 161-166 of base.py and convert_document up to the call of
\* process_with_fallback (170-208): get_document_converter ("converter") or
\* check_tools_availability ("tools") may raise
ConvertDocumentCall ==
    /\ proc.pos = "prepared"
    /\ oPos = "idle"
    /\ \E fault \in {"none", "converter", "tools"} :
          IF fault = "none"
          THEN /\ proc' = [proc EXCEPT !.pos = "converting"]
               /\ oPos' = StrategyOrder[1]
               /\ Report(<<3, 3, 3, 4, 4>>)
          ELSE /\ proc' = InnerExcept(
                     [proc EXCEPT !.received =
                         [kind |-> "raised", document |-> None,
                          exc |-> "converter"]], "convert_document")
               /\ oPos' = oPos
               /\ Report(IF fault = "converter" THEN <<3, 3, 3, 8>>
                         ELSE <<3, 3, 3, 4, 8>>)
    /\ UNCHANGED <<oCalls, oResult>>
    /\ UNCHANGED <<hvars, cvars, svars, avars>>

\* process_with_fallback returned to convert_document, which returns or
\* raises to process_document_with_progress (line 167 of base.py)
ConvertDocumentReturn ==
    /\ proc.pos = "converting"
    /\ oPos = "returned"
    /\ LET out == ConvertDocumentOutcome(oResult)
           p == [proc EXCEPT !.received = out]
       IN /\ proc' = IF out.kind = "document"
                     THEN [p EXCEPT !.pos = "validate"]
                     ELSE InnerExcept(p, "convert_document")
          /\ Report(IF out.kind = "document" THEN <<5, 5>> ELSE <<8>>)
    /\ UNCHANGED <<hvars, oPos, oCalls, oResult, cvars, svars, avars>>

\* validate_document: a DoclingDocument is always valid, any other object
\* (the mock document of the custom OCR) is valid when it has pages
ValidateDocument(document, total_pages) ==
    IF document.kind = "docling" THEN TRUE
    ELSE document.kind # "none" /\ total_pages > 0

\* lines 171-172: `raise ValueError("Invalid document structure")`
ValidateStep ==
    /\ proc.pos = "validate"
    /\ \E total_pages \in 0..1 :
          LET valid == ValidateDocument(proc.received.document, total_pages)
          IN /\ proc' = IF valid THEN [proc EXCEPT !.pos = "docling"]
                        ELSE InnerExcept(proc, "validate_document")
             /\ Report(IF valid THEN <<6>> ELSE <<8>>)
    /\ UNCHANGED <<hvars, oPos, oCalls, oResult, cvars, svars, avars>>

\* what may go wrong inside _process_with_docling_progress:
\*   "metadata"   extract_document_metadata fails and reports 0 pages:
\*                create_fallback_output is called from line 241
\*   "structure_analysis", "page", "hierarchy_metadata": raised inside the
\*                try-blocks of lines 249-258, 270-431 and 490-618, which
\*                log and go on
\*   "escapes"    raised anywhere else, e.g. by the layout extraction
\*                imports of 263-265 or while the returned dict is built
DoclingFaults ==
    {"none", "metadata", "structure_analysis", "page", "hierarchy_metadata",
     "escapes"}

SwallowedFaults == {"structure_analysis", "page", "hierarchy_metadata"}

\* lines 271-277: int(7 + (page_num / num_pages) * 2) for the pages from
\* page_num on (page_num counts from 0)
RECURSIVE PageSteps(_, _)
PageSteps(page_num, num_pages) ==
    IF page_num >= num_pages THEN <<>>
    ELSE <<7 + ((2 * page_num) \div num_pages)>>
         \o PageSteps(page_num + 1, num_pages)

\* the reports of _process_with_docling_progress: 6 (204), then 10 when no
\* page is found (240), else 7 (245), the pages, 9 (433) and 10 (639); what
\* escapes is followed by the 8 of the inner except-branch (180), early
\* (the imports of 263-265) or late (the returned dict)
DoclingReports(fault, num_pages, late) ==
    IF fault = "metadata" THEN <<6, 10>>
    ELSE IF fault = "escapes" /\ ~late THEN <<6, 7, 8>>
    ELSE <<6, 7>> \o PageSteps(0, num_pages) \o <<9, 10>>
         \o (IF fault = "escapes" THEN <<8>> ELSE <<>>)

DoclingDict == [status |-> "success", processing_mode |-> "docling"]
FallbackDict == [status |-> "success", processing_mode |-> "fallback"]

\* _process_with_docling_progress (199-643), called inside the inner try
ProcessWithDoclingProgress ==
    /\ proc.pos = "docling"
    /\ \E fault \in DoclingFaults :
       \E num_pages \in 1..MaxProgressPages : \E late \in BOOLEAN :
          /\ fault = "metadata" => num_pages = 1
          /\ fault # "escapes" => late
          /\ fault = "escapes" /\ ~late => num_pages = 1
          /\ proc' = CASE fault = "none" ->
                         [proc EXCEPT !.pos = "returned", !.result = DoclingDict]
                    [] fault \in SwallowedFaults ->
                         [proc EXCEPT !.pos = "returned", !.result = DoclingDict,
                                      !.failed = @ \cup {fault}]
                    [] fault = "metadata" ->
                         [proc EXCEPT !.pos = "fallback",
                                      !.failed = @ \cup {fault}]
                    [] OTHER -> InnerExcept(proc, fault)
          /\ Report(DoclingReports(fault, num_pages, late))
    /\ UNCHANGED <<hvars, oPos, oCalls, oResult, cvars, svars, avars>>

\* create_fallback_output (file_manager.py 93-180): the page count and the
\* OCR of each page swallow their exceptions; images_dir.mkdir and
\* create_metadata_file write to the output directory and are not guarded
CreateFallbackOutput ==
    /\ proc.pos = "fallback"
    /\ \E stored \in BOOLEAN :
          /\ proc' = IF stored
                     THEN [proc EXCEPT !.pos = "returned", !.result = FallbackDict]
                     ELSE OuterExcept(proc, "OSError")
          /\ Report(IF stored THEN <<>> ELSE <<10>>)
    /\ UNCHANGED <<hvars, oPos, oCalls, oResult, cvars, svars, avars>>

ProcNext ==
    \/ CheckAndPrepare
    \/ ConvertDocumentCall
    \/ EasyocrDirectStep
    \/ QpdfStep
    \/ GhostscriptStep
    \/ ImageOcrStep
    \/ ConvertDocumentReturn
    \/ ValidateStep
    \/ ProcessWithDoclingProgress
    \/ CreateFallbackOutput

(***************************************************************************)
(* LayoutExtractor: classification of the detector's items                 *)
(* (layout_extractor.py).  A text is a sequence of characters over a small *)
(* alphabet, one character for each class the patterns distinguish:        *)
(*   "bullet"  one of the list symbols of the first list pattern (e.g. ・) *)
(*   "sp"      a blank           "digit"  0-9         "dot"  .             *)
(*   "lparen"  ( or （          "rparen" ) or ）                          *)
(*   "zu"      図 (caption word) "company" 株式会社 (footer word)          *)
(*   "mo"      も (a particle a continued sentence starts with)            *)
(*   "kanji"   any other character (e.g. 項)                               *)
(* "・項目A" is <<"bullet", "kanji", "kanji", "kanji">>, and               *)
(* <<"bullet", "kanji">> is the same text with a shorter content.          *)
(***************************************************************************)
MaxTextLen == 3      \* characters of a detected text
MaxDetected == 2     \* detector items on one page

Chars ==
    {"bullet", "sp", "digit", "dot", "lparen", "rparen", "zu", "company",
     "mo", "kanji"}

Texts == UNION {[1..n -> Chars] : n \in 0..MaxTextLen}

RECURSIVE LStrip(_)
LStrip(t) == IF t # <<>> /\ Head(t) = "sp" THEN LStrip(Tail(t)) ELSE t

RECURSIVE RStrip(_)
RStrip(t) ==
    IF t # <<>> /\ t[Len(t)] = "sp" THEN RStrip(SubSeq(t, 1, Len(t) - 1)) ELSE t

\* re.sub(r' {2,}', ' ', text)
RECURSIVE CollapseBlanks(_)
CollapseBlanks(t) ==
    IF Len(t) < 2 THEN t
    ELSE IF t[1] = "sp" /\ t[2] = "sp" THEN CollapseBlanks(Tail(t))
    ELSE <<Head(t)>> \o CollapseBlanks(Tail(t))

\* clean_docling_text(str(text).strip())
CleanDoclingText(text) == RStrip(LStrip(CollapseBlanks(RStrip(LStrip(text)))))

\* first position from i on whose character is not in S (Len(t) + 1: none)
RECURSIVE SkipWhile(_, _, _)
SkipWhile(t, i, S) ==
    IF i <= Len(t) /\ t[i] \in S THEN SkipWhile(t, i + 1, S) ELSE i

\* _is_caption_text: ^図\s*\d+[\.\s]
IsCaptionText(t) ==
    /\ t # <<>>
    /\ t[1] = "zu"
    /\ LET i == SkipWhile(t, 2, {"sp"})
           j == SkipWhile(t, i, {"digit"})
       IN j > i /\ j <= Len(t) /\ t[j] \in {"dot", "sp"}

\* ^\s*\d+\s*$ on the stripped text
DigitsOnly(t) == t # <<>> /\ \A i \in DOMAIN t : t[i] = "digit"

\* _is_footer_text: a footer pattern anywhere in the text (株式会社, a bare
\* page number) and the box in the bottom area, (y1 + y2) / 2 < 130
IsFooterText(t, bbox) ==
    /\ t # <<>>
    /\ (\E i \in DOMAIN t : t[i] = "company") \/ DigitsOnly(t)
    /\ bbox[2] + bbox[4] < 2 * 130

\* _is_list_item_text: ^[・...]\s+ and ^[(（]\s*[0-9]+\s*[)）]; the ending
\* patterns ask for a text that starts with a blank, which a cleaned text
\* never does
IsListItemText(t) ==
    /\ t # <<>>
    /\ \/ Len(t) >= 2 /\ t[1] = "bullet" /\ t[2] = "sp"
       \/ /\ t[1] = "lparen"
          /\ LET i == SkipWhile(t, 2, {"sp"})
                 j == SkipWhile(t, i, {"digit"})
                 k == SkipWhile(t, j, {"sp"})
             IN j > i /\ k <= Len(t) /\ t[k] = "rparen"

\* _is_section_header_text: ^\d+\.\d+\s+ and ^[（(][^)）]{1,30}[)）]$
IsSectionHeaderText(t) ==
    /\ t # <<>>
    /\ \/ LET i == SkipWhile(t, 1, {"digit"})
              j == SkipWhile(t, i + 1, {"digit"})
          IN /\ i > 1 /\ i <= Len(t) /\ t[i] = "dot"
             /\ j > i + 1 /\ j <= Len(t) /\ t[j] = "sp"
       \/ /\ Len(t) >= 3
          /\ t[1] = "lparen"
          /\ t[Len(t)] = "rparen"
          /\ \A i \in 2..(Len(t) - 1) : t[i] # "rparen"

\* _is_continuation_text: in the top area, (y1 + y2) / 2 > 700, and
\* starting with a particle
IsContinuationText(t, bbox) ==
    /\ t # <<>>
    /\ bbox[2] + bbox[4] > 2 * 700
    /\ t[1] = "mo"

\* _is_header_text: not starting like a continued sentence, in the top
\* area, (y1 + y2) / 2 > 712, and no section header
IsHeaderText(t, bbox) ==
    /\ t # <<>>
    /\ t[1] # "mo"
    /\ bbox[2] + bbox[4] > 2 * 712
    /\ ~IsSectionHeaderText(t)

\* obj_type of a main_text item
ObjTypes == {"subtitle-level-1", "section-header", "page-header", "paragraph"}

\* lines 1157-1169: the type the obj_type stands for
HintType(obj_type) ==
    CASE obj_type = "subtitle-level-1" -> "title"
      [] obj_type = "section-header" -> "title"
      [] obj_type = "page-header" -> "page_header"
      [] OTHER -> "text"

\* lines 1171-1192 of _process_main_text_item: caption, then footer, then
\* the if/elif chain list item, continuation, header, section header
ClassifyText(t, obj_type, bbox) ==
    LET hinted == HintType(obj_type)
        captioned == IF IsCaptionText(t) THEN "caption" ELSE hinted
        footed == IF IsFooterText(t, bbox) THEN "page_footer" ELSE captioned
    IN IF footed \in {"text", "title"} /\ IsListItemText(t) THEN "list_item"
       ELSE IF footed = "text" /\ IsContinuationText(t, bbox) THEN "text"
       ELSE IF footed = "text" /\ IsHeaderText(t, bbox) THEN "page_header"
       ELSE IF footed = "text" /\ IsSectionHeaderText(t) THEN "title"
       ELSE footed

\* boxes of main_text items, [left, top, right, bottom]: in the bottom
\* area, in the middle, between 700 and 712, in the top area, of zero size
BottomBox == <<50, 90, 300, 110>>
MiddleBox == <<50, 390, 300, 410>>
UpperBox == <<50, 695, 300, 715>>
TopBox == <<50, 740, 300, 760>>
ZeroBox == <<50, 400, 50, 400>>
\* an item without prov bbox
NoBox == <<>>

ItemBoxes == {BottomBox, MiddleBox, UpperBox, TopBox, ZeroBox, NoBox}

\* nothing is appended for the item
Dropped == [type |-> "none", bbox |-> NoBox]

\* _process_main_text_item: None without a bbox, otherwise the element
ProcessMainTextItem(item) ==
    IF item.bbox = NoBox THEN Dropped
    ELSE [type |-> ClassifyText(CleanDoclingText(item.text), item.obj_type,
                                item.bbox),
          bbox |-> item.bbox]

\* get_element_type: the label, normalised to the DocLayNet names
GetElementType(label) ==
    CASE label = "title" -> "title"
      [] label \in {"heading", "section_header", "section-header"} -> "section-header"
      [] label \in {"list", "list_item", "list-item"} -> "list-item"
      [] OTHER -> "text"

\* extract_bbox of utils.py: the box it finds, a zero box when it finds none
ExtractBbox(bbox) == IF bbox = NoBox THEN <<0, 0, 0, 0>> ELSE bbox

\* extract_bbox_from_element for an item whose box is found by extract_bbox
\* (third way): a box with x1 = x2 counts as no box
ExtractBboxOther(bbox) ==
    LET b == ExtractBbox(bbox)
    IN IF b[1] # b[3] THEN b ELSE NoBox

\* process_docling_element: None ("skipping") without a bbox
ProcessDoclingElement(item) ==
    IF ExtractBboxOther(item.bbox) = NoBox THEN Dropped
    ELSE [type |-> GetElementType(item.obj_type),
          bbox |-> ExtractBboxOther(item.bbox)]

\* the items one classification is tried on
Items == [text : Texts, obj_type : ObjTypes, bbox : ItemBoxes]

\* one main_text item goes through _process_main_text_item
ClassifyOne ==
    /\ cls = <<>>
    /\ \E item \in Items :
          cls' = <<[path |-> "main_text", item |-> item,
                    element |-> ProcessMainTextItem(item)]>>
    /\ UNCHANGED <<hvars, ovars, pvars, svars, avars>>

\* the next item is looked at
ClassReset ==
    /\ cls # <<>>
    /\ cls' = <<>>
    /\ UNCHANGED <<hvars, ovars, pvars, svars, avars>>

ClassNext ==
    \/ ClassifyOne
    \/ ClassReset

\* the items of a page: main_text items of an ExportedCCSDocument, or page
\* items with a label
PageTexts == {<<>>, <<"kanji">>, <<"bullet", "sp", "kanji">>}
MainTextItems ==
    [text : PageTexts, obj_type : {"paragraph", "section-header"},
     bbox : {MiddleBox, ZeroBox, NoBox}]
LabelledItems ==
    [text : PageTexts, obj_type : {"text", "title"},
     bbox : {MiddleBox, ZeroBox, NoBox}]

\* one round of the loop over document.main_text (790-811): the element is
\* appended unless _process_main_text_item returned None
MainTextLoopStep ==
    /\ Len(cls) < MaxDetected
    /\ \A i \in DOMAIN cls : cls[i].path = "main_text"
    /\ \E item \in MainTextItems :
          cls' = Append(cls, [path |-> "main_text", item |-> item,
                              element |-> ProcessMainTextItem(item)])
    /\ UNCHANGED <<hvars, ovars, pvars, svars, avars>>

\* one round of the loop over page.items (173-182)
PageItemsLoopStep ==
    /\ Len(cls) < MaxDetected
    /\ \A i \in DOMAIN cls : cls[i].path = "items"
    /\ \E item \in LabelledItems :
          cls' = Append(cls, [path |-> "items", item |-> item,
                              element |-> ProcessDoclingElement(item)])
    /\ UNCHANGED <<hvars, ovars, pvars, svars, avars>>

ExtractNext ==
    \/ MainTextLoopStep
    \/ PageItemsLoopStep

\* page_layout["elements"] after the rounds so far
RECURSIVE PageElements(_)
PageElements(rounds) ==
    IF rounds = <<>> THEN <<>>
    ELSE LET rest == PageElements(SubSeq(rounds, 1, Len(rounds) - 1))
             last == rounds[Len(rounds)].element
         IN IF last = Dropped THEN rest ELSE Append(rest, last)

(***************************************************************************)
(* DocumentStructureAnalyzer._build_section_structure                      *)
(* (document_structure_analyzer.py 486-533): one pass over all_elements.   *)
(* sect.stream is the part of all_elements the loop has gone through; an   *)
(* element is named by its position in the stream.  A section is its       *)
(* title, the position of its heading_element (0: None) and the positions  *)
(* of its content_elements.                                                *)
(***************************************************************************)
MaxStream == 4       \* elements of a document

StreamElems ==
    [type : {"title"}, text : {"Intro", "Body"}]
    \cup [type : {"text", "table"}, text : {"x"}]

NoSection == [title |-> "", heading |-> 0, content |-> <<>>, open |-> FALSE]

\* _build_section_structure was called
SCalled ==
    sect = [pos |-> "loop", stream |-> <<>>, sections |-> <<>>,
            current |-> NoSection]

\* variant: a title starts its section without the current one being kept
SectionOfTitleLosing(sections, current) == sections

\* lines 500-501: `if current_section: sections.append(current_section)`
SectionOfTitle(sections, current) ==
    IF current.open THEN Append(sections, current) ELSE sections

\* one round of the loop (495-527) on the element at position k
BuildSectionStep ==
    /\ sect # <<>>
    /\ sect.pos = "loop"
    /\ Len(sect.stream) < MaxStream
    /\ \E element \in StreamElems :
          LET k == Len(sect.stream) + 1
          IN sect' =
               IF element.type = "title"
               THEN [sect EXCEPT
                       !.stream = Append(@, element),
                       !.sections = SectionOfTitle(sect.sections, sect.current),
                       !.current = [title |-> element.text, heading |-> k,
                                    content |-> <<>>, open |-> TRUE]]
               ELSE IF sect.current.open
               THEN [sect EXCEPT
                       !.stream = Append(@, element),
                       !.current.content = Append(@, k)]
               ELSE [sect EXCEPT
                       !.stream = Append(@, element),
                       !.current = [title |-> "Document Start", heading |-> 0,
                                    content |-> <<k>>, open |-> TRUE]]
    /\ UNCHANGED <<hvars, ovars, pvars, cvars, avars>>

\* lines 529-533: the last section is added and the list returned
BuildSectionReturn ==
    /\ sect # <<>>
    /\ sect.pos = "loop"
    /\ sect' = [sect EXCEPT
                  !.pos = "returned",
                  !.sections = IF sect.current.open
                               THEN Append(sect.sections, sect.current)
                               ELSE sect.sections,
                  !.current = NoSection]
    /\ UNCHANGED <<hvars, ovars, pvars, cvars, avars>>

SectNext ==
    \/ BuildSectionStep
    \/ BuildSectionReturn

(***************************************************************************)
(* DocumentStructureAnalyzer: cross-page relationships                     *)
(* (document_structure_analyzer.py 350-379, 557-582).  A document is the   *)
(* sequence of its pages, a page the sequence of its element types in      *)
(* document order; page_number of the i-th page is i.                      *)
(***************************************************************************)
MaxRelPages == 2     \* pages of a document whose tables are looked at
MaxRelElems == 2     \* elements on one such page

RelDocs ==
    LET contents == UNION {[1..n -> {"title", "table", "text"}] :
                              n \in 0..MaxRelElems}
    IN UNION {[1..n -> contents] : n \in 0..MaxRelPages}

HasTable(elements) == \E k \in DOMAIN elements : elements[k] = "table"

\* _analyze_cross_page_relationships: one entry for every i whose page and
\* next page both hold a table (lines 565-580), from page i on
RECURSIVE AnalyzeCrossPageRelationships(_, _)
AnalyzeCrossPageRelationships(all_page_layouts, i) ==
    IF i >= Len(all_page_layouts) THEN <<>>
    ELSE (IF HasTable(all_page_layouts[i]) /\ HasTable(all_page_layouts[i + 1])
          THEN <<[from_page |-> i, to_page |-> i + 1]>>
          ELSE <<>>)
         \o AnalyzeCrossPageRelationships(all_page_layouts, i + 1)

\* document.tables: the page (_get_element_page) of every table, in order
RECURSIVE TablePages(_, _)
TablePages(doc, p) ==
    IF p > Len(doc) THEN <<>>
    ELSE [k \in 1..Cardinality({j \in DOMAIN doc[p] : doc[p][j] = "table"}) |-> p]
         \o TablePages(doc, p + 1)

\* _analyze_docling_relationships: the loop over document.tables (lines
\* 365-375) from the k-th table on, prev_page being the page of the table
\* before (0: None)
RECURSIVE AnalyzeDoclingRelationships(_, _, _)
AnalyzeDoclingRelationships(tables, k, prev_page) ==
    IF k > Len(tables) THEN <<>>
    ELSE (IF prev_page # 0 /\ tables[k] = prev_page + 1
          THEN <<[from_page |-> prev_page, to_page |-> tables[k]]>>
          ELSE <<>>)
         \o AnalyzeDoclingRelationships(tables, k + 1, tables[k])

\* the relationships of a document are asked for
RelCalled ==
    sect = [pos |-> "called", doc |-> <<>>, table_continuations |-> <<>>]

\* create_unified_document_structure, line 67
CrossPageRelationshipsStep ==
    /\ sect # <<>>
    /\ sect.pos = "called"
    /\ \E doc \in RelDocs :
          sect' = [pos |-> "layouts", doc |-> doc,
                   table_continuations |-> AnalyzeCrossPageRelationships(doc, 1)]
    /\ UNCHANGED <<hvars, ovars, pvars, cvars, avars>>

\* create_unified_structure_from_docling, line 105
DoclingRelationshipsStep ==
    /\ sect # <<>>
    /\ sect.pos = "called"
    /\ \E doc \in RelDocs :
          sect' = [pos |-> "docling", doc |-> doc,
                   table_continuations |->
                       AnalyzeDoclingRelationships(TablePages(doc, 1), 1, 0)]
    /\ UNCHANGED <<hvars, ovars, pvars, cvars, avars>>

RelNext ==
    \/ CrossPageRelationshipsStep
    \/ DoclingRelationshipsStep

(***************************************************************************)
(* stream_task_status (routers/process.py 238-331): the generator of the   *)
(* status events of one task.  sse.status is the status the result backend *)
(* holds, sse.events the statuses of the events sent so far ("error" for   *)
(* the error event of the except-branch), sse.observed the current_status  *)
(* of the last round.                                                      *)
(***************************************************************************)
MaxPolls == 5        \* rounds of the polling loop

\* line 265
TerminalStates == {"SUCCESS", "FAILURE", "REVOKED"}
\* line 266
HeartbeatInterval == 2

\* the statuses a task goes through in the result backend
StatusAfter(status) ==
    CASE status = "PENDING" -> {"STARTED", "REVOKED"}
      [] status = "STARTED" -> {"SUCCESS", "FAILURE", "RETRY", "REVOKED"}
      [] status = "RETRY" -> {"STARTED", "REVOKED"}
      [] OTHER -> {}

\* the stream was opened: event_generator has not run yet
SseOpened ==
    sse = [pos |-> "loop", status |-> "PENDING", last_status |-> "None",
           seconds_since_last_event |-> 0, events |-> <<>>, polls |-> 0,
           observed |-> "None"]

\* variant: an event is sent at heartbeat time only
ShouldSendAtHeartbeat(current_status, last_status, seconds) ==
    seconds >= HeartbeatInterval

\* lines 277-281: has_changed or is_first_event or is_heartbeat_time
ShouldSend(current_status, last_status, seconds) ==
    \/ current_status # last_status
    \/ last_status = "None"
    \/ seconds >= HeartbeatInterval

\* the worker, or a revocation, changes the status of the task
TaskStatusChanges ==
    /\ sse # <<>>
    /\ sse.pos \in {"loop", "sleep"}
    /\ \E status \in StatusAfter(sse.status) :
          sse' = [sse EXCEPT !.status = status]
    /\ UNCHANGED <<hvars, ovars, pvars, cvars, svars, auth, task, docRuns>>

\* one round of `while True` (272-314).  fault: reading the status raises,
\* or json.dumps raises on the result or info of the task (a result that is
\* an exception object); both end in the except-branch (319-321), which
\* sends the error event and ends the generator
PollTask ==
    /\ sse # <<>>
    /\ sse.pos = "loop"
    /\ sse.polls < MaxPolls
    /\ \E fault \in {"none", "status", "dumps"} :
          LET current_status == sse.status
              send == ShouldSend(current_status, sse.last_status,
                                 sse.seconds_since_last_event)
          IN /\ fault = "dumps" => send /\ current_status # "PENDING"
             /\ sse' =
                  IF fault \in {"status", "dumps"}
                  THEN [sse EXCEPT !.pos = "error",
                                   !.observed = IF fault = "dumps"
                                                THEN current_status ELSE @,
                                   !.events = Append(@, "error"),
                                   !.polls = @ + 1]
                  ELSE [sse EXCEPT
                          !.observed = current_status,
                          !.pos = IF current_status \in TerminalStates
                                  THEN "closed" ELSE "sleep",
                          !.events = IF send THEN Append(@, current_status) ELSE @,
                          !.last_status = IF send THEN current_status ELSE @,
                          !.seconds_since_last_event = IF send THEN 0 ELSE @ + 1,
                          !.polls = @ + 1]
    /\ UNCHANGED <<hvars, ovars, pvars, cvars, svars, auth, task, docRuns>>

\* line 317: await asyncio.sleep(1) returns
SleepOver ==
    /\ sse # <<>>
    /\ sse.pos = "sleep"
    /\ sse' = [sse EXCEPT !.pos = "loop"]
    /\ UNCHANGED <<hvars, ovars, pvars, cvars, svars, auth, task, docRuns>>

SseNext ==
    \/ TaskStatusChanges
    \/ PollTask
    \/ SleepOver

(***************************************************************************)
(* Authentication (core/security.py): decode_token with the cached JWKS,   *)
(* get_current_user, require_admin.  auth.cache is what lru_cache holds    *)
(* for get_jwks (NotCached: nothing), auth.served the key ids the auth     *)
(* service serves; auth.lookups counts the calls of get_public_key of the  *)
(* current token, auth.misses those that returned None, auth.clears the    *)
(* calls of get_jwks.cache_clear.                                          *)
(***************************************************************************)
MaxTokens == 2       \* tokens decoded one after the other
MaxRoles == 2        \* roles of one user

Kids == {"k1", "k2"}
NotCached == {"not cached"}
NoUser == [user_id |-> "none"]
NoOutcomeYet == [status |-> 0, detail |-> ""]

RoleLists == UNION {[1..n -> {"admin", "super_admin", "user"}] : n \in 0..MaxRoles}
\* what require_admin may be given: a user with roles, or without the key
Users == [user_id : {"u"}, roles : RoleLists] \cup {[user_id |-> "u"]}

\* decode_token was called; the JWKS of the auth service is not cached yet
AuthCalled ==
    auth = [pos |-> "called", cache |-> NotCached, served |-> {"k1"}, kid |-> "",
            key |-> "None", lookups |-> 0, misses |-> 0, clears |-> 0,
            outcome |-> NoOutcomeYet, user |-> NoUser, returned |-> NoUser,
            tokens |-> 1]

\* get_public_key(kid) on the JWKS: the key constructed for the entry with
\* that kid; None when there is no such entry or jwk.construct raises JWKError
GetPublicKey(jwks_data, kid, constructs) ==
    IF kid \in jwks_data /\ constructs THEN kid ELSE "None"

\* variant: a lookup that finds no key is always followed by another one
AfterMissAgain(pos) == "lookup"

\* lines 63-72: after the first lookup without key the cache is cleared and
\* the lookup made again, after the second the token is rejected
AfterMiss(pos) == IF pos = "lookup" THEN "retry" ELSE "rejected"

\* variant: the role user is enough
IsAdminOrUser(roles) ==
    \E k \in DOMAIN roles : roles[k] \in {"admin", "super_admin", "user"}

\* line 127: "admin" in roles or "super_admin" in roles
IsAdmin(roles) ==
    \E k \in DOMAIN roles : roles[k] \in {"admin", "super_admin"}

\* require_admin: the user as it is, or HTTP 403
RequireAdmin(current_user) ==
    LET roles == IF "roles" \in DOMAIN current_user THEN current_user.roles
                 ELSE <<>>
    IN IF IsAdmin(roles)
       THEN [status |-> 200, detail |-> "", returned |-> current_user]
       ELSE [status |-> 403, detail |-> "Admin access required",
             returned |-> NoUser]

\* the auth service changes the keys it serves
RotateKeys ==
    /\ auth # <<>>
    /\ auth.pos # "done"
    /\ \E served \in SUBSET Kids :
          /\ served # auth.served
          /\ auth' = [auth EXCEPT !.served = served]
    /\ UNCHANGED <<hvars, ovars, pvars, cvars, svars, sse, task, docRuns>>

\* lines 52-59: the unverified header is read (JWTError: "Invalid token"),
\* a token without kid is rejected
ReadHeader ==
    /\ auth # <<>>
    /\ auth.pos = "called"
    /\ \E header \in {"raises", "no kid"} \cup Kids :
          auth' =
            IF header = "raises"
            THEN [auth EXCEPT !.pos = "done",
                    !.outcome = [status |-> 401, detail |-> "Invalid token"]]
            ELSE IF header = "no kid"
            THEN [auth EXCEPT !.pos = "done",
                    !.outcome = [status |-> 401, detail |-> "Token missing key ID"]]
            ELSE [auth EXCEPT !.pos = "lookup", !.kid = header]
    /\ UNCHANGED <<hvars, ovars, pvars, cvars, svars, sse, task, docRuns>>

\* one call of get_public_key (line 62 or 66) with what follows it: get_jwks
\* fetches when nothing is cached (a failing fetch is HTTP 503 and caches
\* nothing); without key the first call is followed by cache_clear
LookupKey ==
    /\ auth # <<>>
    /\ auth.pos \in {"lookup", "retry"}
    /\ \E fetched \in BOOLEAN : \E constructs \in BOOLEAN :
          LET jwks_data == IF auth.cache = NotCached THEN auth.served
                           ELSE auth.cache
              public_key == GetPublicKey(jwks_data, auth.kid, constructs)
              next == AfterMiss(auth.pos)
          IN /\ auth.cache # NotCached => fetched
             /\ ~fetched => constructs
             /\ auth' =
                  IF ~fetched
                  THEN [auth EXCEPT !.pos = "done", !.lookups = @ + 1,
                          !.outcome = [status |-> 503,
                             detail |-> "Authentication service unavailable"]]
                  ELSE IF public_key # "None"
                  THEN [auth EXCEPT !.pos = "decode", !.lookups = @ + 1,
                          !.cache = jwks_data, !.key = public_key]
                  ELSE IF next = "rejected"
                  THEN [auth EXCEPT !.pos = "done", !.lookups = @ + 1,
                          !.misses = @ + 1, !.cache = jwks_data,
                          !.outcome = [status |-> 401,
                                       detail |-> "Unknown signing key"]]
                  ELSE [auth EXCEPT !.pos = next, !.lookups = @ + 1,
                          !.misses = @ + 1, !.cache = NotCached,
                          !.clears = @ + 1]
    /\ UNCHANGED <<hvars, ovars, pvars, cvars, svars, sse, task, docRuns>>

\* lines 75-95 and get_current_user (110-119): jwt.decode with the key
\* returns the payload or raises; the user carries the payload's roles,
\* [] when the payload has none
JwtDecode ==
    /\ auth # <<>>
    /\ auth.pos = "decode"
    /\ \E result \in {"expired", "invalid", "payload"} :
       \E has_roles \in BOOLEAN : \E roles \in RoleLists :
          /\ result # "payload" => has_roles /\ roles = <<>>
          /\ ~has_roles => roles = <<>>
          /\ auth' =
               IF result = "expired"
               THEN [auth EXCEPT !.pos = "done",
                       !.outcome = [status |-> 401, detail |-> "Token has expired"]]
               ELSE IF result = "invalid"
               THEN [auth EXCEPT !.pos = "done",
                       !.outcome = [status |-> 401, detail |-> "Invalid token"]]
               ELSE [auth EXCEPT !.pos = "user",
                       !.outcome = [status |-> 200, detail |-> "payload"],
                       !.user = [user_id |-> "u", roles |-> roles]]
    /\ UNCHANGED <<hvars, ovars, pvars, cvars, svars, sse, task, docRuns>>

\* require_admin on the user of get_current_user
RequireAdminStep ==
    /\ auth # <<>>
    /\ auth.pos = "user"
    /\ LET r == RequireAdmin(auth.user)
       IN auth' = [auth EXCEPT !.pos = "done",
                     !.outcome = [status |-> r.status, detail |-> r.detail],
                     !.returned = r.returned]
    /\ UNCHANGED <<hvars, ovars, pvars, cvars, svars, sse, task, docRuns>>

\* require_admin called with a user of the caller's making, as the tests do
RequireAdminDirect ==
    /\ auth # <<>>
    /\ auth.pos = "called"
    /\ \E current_user \in Users :
          LET r == RequireAdmin(current_user)
          IN auth' = [auth EXCEPT !.pos = "done", !.user = current_user,
                        !.outcome = [status |-> r.status, detail |-> r.detail],
                        !.returned = r.returned]
    /\ UNCHANGED <<hvars, ovars, pvars, cvars, svars, sse, task, docRuns>>

\* the next request: the cache of get_jwks stays as it is
NextToken ==
    /\ auth # <<>>
    /\ auth.pos = "done"
    /\ auth.tokens < MaxTokens
    /\ auth' = [auth EXCEPT !.pos = "called", !.kid = "", !.key = "None",
                  !.lookups = 0, !.misses = 0, !.clears = 0,
                  !.outcome = NoOutcomeYet, !.user = NoUser,
                  !.returned = NoUser, !.tokens = @ + 1]
    /\ UNCHANGED <<hvars, ovars, pvars, cvars, svars, sse, task, docRuns>>

AuthNext ==
    \/ RotateKeys
    \/ ReadHeader
    \/ LookupKey
    \/ JwtDecode
    \/ RequireAdminStep
    \/ RequireAdminDirect
    \/ NextToken

(***************************************************************************)
(* The pages and the metadata of _process_with_docling_progress            *)
(* (base.py 260-431, 490-555, 643-659) for the documents in flight on the  *)
(* process-wide DocumentProcessor (get_document_processor, 959-971).       *)
(* docRuns.attr is the attribute self.processed_hierarchy_metadata of that    *)
(* processor: the hierarchy metadata of a document, named by the document  *)
(* (0: the attribute was never set), with its "pages".                     *)
(* docRuns.of[d] is the invocation for document d; its `raised` are the page  *)
(* numbers whose round of the page loop raised.                            *)
(***************************************************************************)
MaxRunPages == 2     \* pages of a document of which the metadata is built

NoMeta == [doc |-> 0, pages |-> <<>>]
NoRun ==
    [pos |-> "idle", num_pages |-> 0, pages_data |-> <<>>, raised |-> {},
     metadata |-> NoMeta]

\* nothing was processed yet on the DocumentProcessor
DocRunsInit == docRuns = [attr |-> NoMeta, of |-> [d \in Docs |-> NoRun]]

\* lines 506-514: every entry of pages_data is given its own
\* hierarchical_elements again and "has_hierarchy": True; metadata.copy() is
\* shallow, so hierarchy_metadata["pages"] is pages_data itself
TransferHierarchicalElements(pages_data) ==
    [k \in DOMAIN pages_data |-> [pages_data[k] EXCEPT !.has_hierarchy = TRUE]]

\* _process_with_docling_progress is entered for document d (199-266)
StartRun(d) ==
    /\ docRuns # <<>>
    /\ docRuns.of[d].pos = "idle"
    /\ \E num_pages \in 1..MaxRunPages :
          docRuns' = [docRuns EXCEPT !.of[d].pos = "loop",
                               !.of[d].num_pages = num_pages]
    /\ UNCHANGED <<hvars, ovars, pvars, cvars, svars, sse, auth, task>>

\* one round of the page loop (269-431): page_data is appended, or, when
\* the round raises, the entry of the except-branch (420-431)
PageRound(d) ==
    /\ docRuns # <<>>
    /\ docRuns.of[d].pos = "loop"
    /\ Len(docRuns.of[d].pages_data) < docRuns.of[d].num_pages
    /\ \E raises \in BOOLEAN : \E elements \in 0..1 :
          LET page_num == Len(docRuns.of[d].pages_data)
          IN /\ raises => elements = 0
             /\ docRuns' = [docRuns EXCEPT
                   !.of[d].pages_data =
                       Append(@, [page_number |-> page_num + 1,
                                  hierarchical_elements |-> elements,
                                  has_hierarchy |-> ~raises]),
                   !.of[d].raised =
                       IF raises THEN @ \cup {page_num + 1} ELSE @]
    /\ UNCHANGED <<hvars, ovars, pvars, cvars, svars, sse, auth, task>>

\* lines 490-555 after the loop.  fault: create_extended_metadata raises
\* ("extended"), save_hierarchy_metadata raises ("save"); both are logged
\* and the attribute of the processor is left as it is
BuildHierarchyMetadata(d) ==
    /\ docRuns # <<>>
    /\ docRuns.of[d].pos = "loop"
    /\ Len(docRuns.of[d].pages_data) = docRuns.of[d].num_pages
    /\ \E fault \in {"none", "extended", "save"} :
          LET pages == TransferHierarchicalElements(docRuns.of[d].pages_data)
          IN docRuns' =
               CASE fault = "extended" -> [docRuns EXCEPT !.of[d].pos = "built"]
                 [] fault = "save" ->
                      [docRuns EXCEPT !.of[d].pos = "built",
                                   !.of[d].pages_data = pages]
                 [] OTHER ->
                      [docRuns EXCEPT !.of[d].pos = "built",
                                   !.of[d].pages_data = pages,
                                   !.attr = [doc |-> d, pages |-> pages]]
    /\ UNCHANGED <<hvars, ovars, pvars, cvars, svars, sse, auth, task>>

\* lines 643-659: "metadata": getattr(self, 'processed_hierarchy_metadata', None)
ReturnResult(d) ==
    /\ docRuns # <<>>
    /\ docRuns.of[d].pos = "built"
    /\ docRuns' = [docRuns EXCEPT !.of[d].pos = "returned",
                            !.of[d].metadata = docRuns.attr]
    /\ UNCHANGED <<hvars, ovars, pvars, cvars, svars, sse, auth, task>>

RunNext ==
    \E d \in Docs :
        \/ StartRun(d)
        \/ PageRound(d)
        \/ BuildHierarchyMetadata(d)
        \/ ReturnResult(d)

(***************************************************************************)
(* process_document_task (tasks/document_tasks.py 13-105), one submission. *)
(* task.retries is self.request.retries of the execution at hand,          *)
(* task.executions the executions started so far, task.now the time in     *)
(* seconds and task.eta the time before which the worker does not start    *)
(* the task; task.starts and task.ends are the times at which the          *)
(* executions started and ended, task.countdowns the countdowns handed to  *)
(* self.retry, task.callbacks the callbacks attempted, task.outcome the    *)
(* status of the returned dict ("none": nothing was returned).             *)
(* The broker is taken to accept every retry.                              *)
(***************************************************************************)
MaxLate == 1         \* ticks a worker may start a task after its eta
MaxRun == 1          \* ticks one execution may take

\* line 13: max_retries=3
MaxRetries == 3
\* the clock advances in steps of one minute
TickSeconds == 60

\* the task was submitted, with or without a callback_url
TaskSubmitted ==
    task \in {[pos |-> "queued", callback_url |-> u, retries |-> 0,
               executions |-> 0, now |-> 0, eta |-> 0, starts |-> <<>>,
               ends |-> <<>>, countdowns |-> <<>>, callbacks |-> <<>>,
               outcome |-> "none"] : u \in BOOLEAN}

\* variant: one more retry is granted
ShouldRetryOnceMore(retries) == retries <= MaxRetries

\* line 83: self.request.retries < self.max_retries
ShouldRetry(retries) == retries < MaxRetries

\* line 84: countdown=60 * (self.request.retries + 1)
Countdown(retries) == 60 * (retries + 1)

\* lines 54-65 and 87-99: the callback is attempted when a callback_url was
\* given; what the POST raises is logged and swallowed
AttemptCallback(t, status, delivered) ==
    IF t.callback_url
    THEN Append(t.callbacks, [execution |-> t.executions, status |-> status,
                              delivered |-> delivered])
    ELSE t.callbacks

\* time passes while the task waits for a worker or is executed
Tick ==
    /\ task # <<>>
    /\ \/ task.pos = "queued" /\ task.now < task.eta + MaxLate * TickSeconds
       \/ /\ task.pos = "running"
          /\ task.now < task.starts[Len(task.starts)] + MaxRun * TickSeconds
    /\ task' = [task EXCEPT !.now = @ + TickSeconds]
    /\ UNCHANGED <<hvars, ovars, pvars, cvars, svars, sse, auth, docRuns>>

\* a worker starts the task, not before its eta
StartExecution ==
    /\ task # <<>>
    /\ task.pos = "queued"
    /\ task.now >= task.eta
    /\ task' = [task EXCEPT !.pos = "running", !.executions = @ + 1,
                            !.starts = Append(@, task.now)]
    /\ UNCHANGED <<hvars, ovars, pvars, cvars, svars, sse, auth, docRuns>>

\* lines 38-76: the document is processed, the success callback attempted
\* and the success dict returned
ExecutionSucceeds ==
    /\ task # <<>>
    /\ task.pos = "running"
    /\ \E delivered \in BOOLEAN :
          /\ ~task.callback_url => delivered
          /\ task' = [task EXCEPT
                        !.pos = "done", !.outcome = "success",
                        !.ends = Append(@, task.now),
                        !.callbacks = AttemptCallback(task, "success", delivered)]
    /\ UNCHANGED <<hvars, ovars, pvars, cvars, svars, sse, auth, docRuns>>

\* lines 78-105: the processing raised; self.retry while retries are left,
\* else the failure callback is attempted and the error dict returned
ExecutionFails ==
    /\ task # <<>>
    /\ task.pos = "running"
    /\ \E delivered \in BOOLEAN :
          /\ (~task.callback_url \/ ShouldRetry(task.retries)) => delivered
          /\ task' =
               IF ShouldRetry(task.retries)
               THEN [task EXCEPT
                       !.pos = "queued", !.retries = @ + 1,
                       !.ends = Append(@, task.now),
                       !.countdowns = Append(@, Countdown(task.retries)),
                       !.eta = task.now + Countdown(task.retries)]
               ELSE [task EXCEPT
                       !.pos = "done", !.outcome = "error",
                       !.ends = Append(@, task.now),
                       !.callbacks = AttemptCallback(task, "error", delivered)]
    /\ UNCHANGED <<hvars, ovars, pvars, cvars, svars, sse, auth, docRuns>>

TaskNext ==
    \/ Tick
    \/ StartExecution
    \/ ExecutionSucceeds
    \/ ExecutionFails

\* no classification and no section detection is looked at
CIdle == cls = <<>>
SIdle == sect = <<>>
\* no status stream, no authentication and no task is looked at
AIdle == sse = <<>> /\ auth = <<>> /\ task = <<>> /\ docRuns = <<>>

\* the page loop starts, no call of process_with_fallback is looked at
PageLoopInit == HInit /\ OIdle /\ PIdle /\ CIdle /\ SIdle /\ AIdle

\* process_with_fallback was called, the page loop has not started
OrchInit == HInit /\ OInit /\ PIdle /\ CIdle /\ SIdle /\ AIdle

\* process_document_with_progress was called
ProcInit == HInit /\ OIdle /\ PCalled /\ CIdle /\ SIdle /\ AIdle

\* _build_section_structure was called, nothing else is looked at
SectInit == HInit /\ OIdle /\ PIdle /\ CIdle /\ SCalled /\ AIdle

\* the cross-page relationships of a document are asked for
RelInit == HInit /\ OIdle /\ PIdle /\ CIdle /\ RelCalled /\ AIdle

\* a status stream was opened, nothing else is looked at
SseInit ==
    HInit /\ OIdle /\ PIdle /\ CIdle /\ SIdle /\ SseOpened
        /\ auth = <<>> /\ task = <<>> /\ docRuns = <<>>

\* a request with a token came in, nothing else is looked at
AuthInit ==
    HInit /\ OIdle /\ PIdle /\ CIdle /\ SIdle /\ AuthCalled
        /\ sse = <<>> /\ task = <<>> /\ docRuns = <<>>

\* documents are about to be processed on the shared processor
RunInit ==
    HInit /\ OIdle /\ PIdle /\ CIdle /\ SIdle /\ DocRunsInit
        /\ sse = <<>> /\ auth = <<>> /\ task = <<>>

\* a document task was submitted, nothing else is looked at
TaskInit ==
    HInit /\ OIdle /\ PIdle /\ CIdle /\ SIdle /\ TaskSubmitted
        /\ sse = <<>> /\ auth = <<>> /\ docRuns = <<>>

PageSpec == PageLoopInit /\ [][PageNext]_vars
DocSpec == PageLoopInit /\ [][DocNext]_vars
ConcSpec == PageLoopInit /\ [][ConcNext]_vars
OrchSpec == OrchInit /\ [][OrchNext]_vars
ProcSpec == ProcInit /\ [][ProcNext]_vars
BoxSpec == PageLoopInit /\ [][BoxNext]_vars
ClassSpec == PageLoopInit /\ [][ClassNext]_vars
ExtractSpec == PageLoopInit /\ [][ExtractNext]_vars
SectSpec == SectInit /\ [][SectNext]_vars
RelSpec == RelInit /\ [][RelNext]_vars
SseSpec == SseInit /\ [][SseNext]_vars
AuthSpec == AuthInit /\ [][AuthNext]_vars
RunSpec == RunInit /\ [][RunNext]_vars
TaskSpec == TaskInit /\ [][TaskNext]_vars

(***************************************************************************)
(* Helpers of the properties.                                              *)
(***************************************************************************)
\* nodes reachable from a list of keys through the children lists
RECURSIVE CountNodes(_, _)
CountNodes(keys, kids) ==
    IF keys = <<>> THEN 0
    ELSE 1 + CountNodes(kids[Head(keys)], kids) + CountNodes(Tail(keys), kids)

\* how often key k occurs among those nodes
RECURSIVE Occurrences(_, _, _)
Occurrences(k, keys, kids) ==
    IF keys = <<>> THEN 0
    ELSE (IF Head(keys) = k THEN 1 ELSE 0)
         + Occurrences(k, kids[Head(keys)], kids)
         + Occurrences(k, Tail(keys), kids)

RECURSIVE Flatten(_)
Flatten(pages) ==
    IF pages = <<>> THEN <<>> ELSE Head(pages).ids \o Flatten(Tail(pages))

\* elements that went through the indexing loop on a document's pages
RECURSIVE Indexed(_)
Indexed(pages) ==
    IF pages = <<>> THEN 0 ELSE Head(pages).elements + Indexed(Tail(pages))

\* ids of a document's committed nodes, page after page, parent before child
FlatIds(d) == Flatten(docPages[d])

TimesIn(s, x) == Cardinality({i \in DOMAIN s : s[i] = x})

ParentsOf(map, k) == {q \in DOMAIN map : k \in Range(map[q])}

RoleCompatible(parent_type, child_type) ==
    \/ parent_type = "table" /\ child_type = "table_cell"
    \/ parent_type = "list" /\ child_type = "list_item"

\* position of entry x in a sorted hierarchy
PosIn(s, x) == CHOOSE i \in DOMAIN s : s[i] = x

\* the nearest element of lower semantic level that precedes element k in
\* the order (semantic_level, element_id); 0 when there is none
NearestLower(elems, k) ==
    LET sorted == SortedHierarchy(elems)
        lower == {q \in DOMAIN elems : elems[q].lvl < elems[k].lvl}
    IN IF lower = {} THEN 0
       ELSE CHOOSE q \in lower :
                \A r \in lower : PosIn(sorted, r) <= PosIn(sorted, q)

\* the two elements of the end-to-end scenario
ScenarioPage(elems) ==
    /\ Len(elems) = 2
    /\ elems[1].type = "title" /\ elems[1].bbox = <<50, 780, 300, 800>>
    /\ elems[2].type = "text" /\ elems[2].bbox = <<50, 700, 500, 770>>

\* the element carries a flag that marks its geometry as inconsistent
Flagged(e) == "flagged" \in DOMAIN e

\* a zero-size box
ZeroSize(bbox) == bbox # NoBox /\ bbox[1] = bbox[3] /\ bbox[2] = bbox[4]

\* a bullet directly followed by content, as in "・項目A"
BulletThenContent(t) ==
    Len(t) >= 2 /\ t[1] = "bullet" /\ t[2] \notin {"sp", "bullet"}

\* the sections so far, the one being filled included
AllSections ==
    IF sect.current.open THEN Append(sect.sections, sect.current)
    ELSE sect.sections

\* the positions the sections hold, in the order of the sections: the
\* heading first, then the content
RECURSIVE SectionStream(_)
SectionStream(sections) ==
    IF sections = <<>> THEN <<>>
    ELSE (IF Head(sections).heading = 0 THEN <<>>
          ELSE <<Head(sections).heading>>)
         \o Head(sections).content \o SectionStream(Tail(sections))

\* position of the nearest title before position k of the stream, 0: none
RECURSIVE NearestTitle(_, _)
NearestTitle(stream, k) ==
    IF k <= 1 THEN 0
    ELSE IF stream[k - 1].type = "title" THEN k - 1
    ELSE NearestTitle(stream, k - 1)

\* a table of page p is followed by a table of page p + 1 and no title
\* lies between the two in document order
TablesWithoutTitleBetween(doc, p) ==
    \E i \in DOMAIN doc[p] : \E j \in DOMAIN doc[p + 1] :
        /\ doc[p][i] = "table"
        /\ doc[p + 1][j] = "table"
        /\ \A k \in DOMAIN doc[p] : k > i => doc[p][k] # "title"
        /\ \A k \in DOMAIN doc[p + 1] : k < j => doc[p + 1][k] # "title"

PageDone == page.doc # 0

\* the hierarchy builder returned a forest (assembled or flat)
ForestBuilt == page.doc # 0 /\ page.fault # "abandoned"

C2_UniqueIds ==
    \A d \in Docs :
        LET f == FlatIds(d) IN
        \A i, j \in 1..Len(f) : i # j => f[i] # f[j]

(***************************************************************************)
(* C3.  The ids issued by the counter, read in the order the nodes are     *)
(* committed (page after page, parent before child), strictly increase.    *)
(***************************************************************************)
C3_IncreasingInCommitOrder ==
    \A d \in Docs :
        LET f == FlatIds(d) IN
        \A i \in 1..(Len(f) - 1) :
            (f[i][1] = "ID" /\ f[i + 1][1] = "ID") => f[i][2] < f[i + 1][2]

(***************************************************************************)
(* C4.  Every document has its own counter: the counter-issued ids of each *)
(* of its pages are the ones the document gets when processed alone (they  *)
(* continue after the nodes of its own earlier pages), and its counter     *)
(* counts its own nodes only, whatever the other document does meanwhile.  *)
(***************************************************************************)
IndexedBefore(d, p) == Indexed(SubSeq(docPages[d], 1, p - 1))

C4_OwnCounter ==
    \A d \in Docs :
        /\ counter[d] = Indexed(docPages[d])
        /\ \A p \in 1..Len(docPages[d]) :
              LET ids == docPages[d][p].ids IN
              (ids # <<>> /\ ids[1][1] = "ID") =>
                  Range(ids) = {<<"ID", IndexedBefore(d, p) + k>> : k \in 1..Len(ids)}

\* both documents have pages with counter-issued ids, one of them on its
\* second page, after the other document's converter was used
C4_Witness ==
    /\ \A d \in Docs : pageNo[d] >= 1 /\ counter[d] >= 1
    /\ \E d \in Docs :
          /\ pageNo[d] >= 2
          /\ docPages[d][2].ids # <<>>
          /\ docPages[d][2].ids[1][1] = "ID"
          /\ docPages[d][1].elements >= 1

(***************************************************************************)
(* C5.  After every hierarchy pass of a page, also one that raised and     *)
(* fell back to the flat list or was abandoned, the counter of the         *)
(* document's converter equals the number of nodes committed to the        *)
(* document's pages so far.                                                *)
(***************************************************************************)
C5_CounterCountsCommitted ==
    \A d \in Docs : counter[ConverterOf(d)] = Len(FlatIds(d))

(***************************************************************************)
(* C6.  After spatial correction every key is in the children list of at   *)
(* most one parent, once; in the final forest a node with a parent_id is   *)
(* in the children of the node that parent_id names and of no other node,  *)
(* and is not a root; a node without parent_id is a root and nobody's      *)
(* child.                                                                  *)
(***************************************************************************)
C6_ExclusiveParent ==
    ForestBuilt =>
        LET n == Len(page.elems)
            t == page.tree
        IN /\ \A k \in 1..n :
                 /\ Cardinality(ParentsOf(page.spMap, k)) <= 1
                 /\ \A q \in 1..n : TimesIn(page.spMap[q], k) <= 1
           /\ \A k \in 1..n :
                 IF t.par[k] # 0
                 THEN /\ ParentsOf(t.kids, k) = {t.par[k]}
                      /\ TimesIn(t.kids[t.par[k]], k) = 1
                      /\ k \notin Range(t.roots)
                 ELSE /\ ParentsOf(t.kids, k) = {}
                      /\ TimesIn(t.roots, k) = 1

(***************************************************************************)
(* C7.  On a page whose hierarchy pass completed: a table_cell lying       *)
(* inside a table (a list_item inside a list) has, in the final forest, a  *)
(* parent of that container type that contains it.                         *)
(***************************************************************************)
C7_SpatialWins ==
    (PageDone /\ page.fault = "none") =>
        LET n == Len(page.elems)
            e == page.elems
            t == page.tree
        IN \A c, p \in 1..n :
              (c # p /\ RoleCompatible(e[p].type, e[c].type)
                     /\ IsContained(e[p].bbox, e[c].bbox))
              => /\ t.par[c] # 0
                 /\ e[t.par[c]].type = e[p].type
                 /\ IsContained(e[t.par[c]].bbox, e[c].bbox)

(***************************************************************************)
(* C8.  The spatial phase puts a key only under a role-compatible          *)
(* container (table_cell under table, list_item under list), and a key     *)
(* without a role-compatible container around it keeps the parents the     *)
(* semantic phase gave it.                                                 *)
(***************************************************************************)
C8_RoleCompatibleOnly ==
    PageDone =>
        LET n == Len(page.elems)
            e == page.elems
        IN /\ \A p, c \in 1..n :
                 (c \in Range(page.spMap[p]) /\ c \notin Range(page.semMap[p]))
                     => RoleCompatible(e[p].type, e[c].type)
           /\ \A c \in 1..n :
                 (\A p \in 1..n : ~(c # p /\ RoleCompatible(e[p].type, e[c].type)
                                         /\ IsContained(e[p].bbox, e[c].bbox)))
                     => ParentsOf(page.spMap, c) = ParentsOf(page.semMap, c)

(***************************************************************************)
(* C9.  The strategies are invoked one after the other in the fixed order  *)
(* easyocr_direct, qpdf_docling, ghostscript_docling, image_ocr_docling;   *)
(* every strategy invoked before the last one returned failure; at the     *)
(* first success the orchestrator has returned with method_used naming     *)
(* that strategy and its document, and nothing is invoked after it; it     *)
(* returns all_failed only after all four failed.                          *)
(***************************************************************************)
C9_FixedOrderFirstSuccess ==
    LET m == Len(oCalls) IN
    /\ m <= Len(StrategyOrder)
    /\ \A i \in 1..m : oCalls[i].name = StrategyOrder[i]
    /\ \A i \in 1..(m - 1) : ~oCalls[i].success
    /\ IF oPos = "returned"
       THEN /\ m >= 1
            /\ IF oCalls[m].success
               THEN oResult = [success |-> TRUE,
                               document |-> oCalls[m].document,
                               method_used |-> oCalls[m].name]
               ELSE m = Len(StrategyOrder) /\ oResult = AllFailed
       ELSE /\ oResult = NoResult
            /\ \A i \in 1..m : ~oCalls[i].success
            /\ oPos = StrategyOrder[m + 1]

\* the second strategy succeeded after the first failed, the rest never ran
C9_Witness ==
    /\ oPos = "returned"
    /\ Len(oCalls) = 2
    /\ oResult.success
    /\ oResult.method_used = "qpdf_docling"

(***************************************************************************)
(* C10.  Whenever the orchestrator reports success, the returned document  *)
(* has at least one element.                                               *)
(***************************************************************************)
C10_SuccessHasContent ==
    oResult.success => oResult.document.items >= 1

(***************************************************************************)
(* C11.  When every strategy failed, the caller of the extraction step     *)
(* (process_document_with_progress, which called convert_document)         *)
(* receives the all-failed result as a value: no exception reaches it.     *)
(***************************************************************************)
C11_AllFailedIsAValue ==
    (oPos = "returned" /\ oResult = AllFailed /\ proc.received.kind # "none")
        => /\ proc.received.kind = "all_failed"
           /\ proc.received.exc = "none"

(***************************************************************************)
(* C12.  On return the orchestrator's result carries one attempt record    *)
(* per strategy tried, in the order tried, each with the strategy's name   *)
(* and success flag: no attempted strategy is missing, no untried one      *)
(* appears.                                                                *)
(***************************************************************************)
C12_AttemptRecords ==
    oPos = "returned" =>
        LET attempts == Attempts(oResult) IN
        /\ Len(attempts) = Len(oCalls)
        /\ \A i \in 1..Len(oCalls) :
               /\ attempts[i].name = oCalls[i].name
               /\ attempts[i].success = oCalls[i].success

(***************************************************************************)
(* C13.  For an existing input document whose output directory can be      *)
(* written, process_document_with_progress ends by returning a dict with   *)
(* status success and processing mode docling or fallback, whichever step  *)
(* of the conversion, the validation or the Docling pipeline failed; it    *)
(* raises only for a missing document or a failed write.                   *)
(***************************************************************************)
C13_AlwaysAResult ==
    /\ proc.pos = "raised" => /\ proc.exc \in {"FileNotFoundError", "OSError"}
                              /\ proc.result = NoDict
    /\ proc.pos = "returned" => /\ proc.result \in {DoclingDict, FallbackDict}
                                /\ proc.exc = "none"
    /\ proc.pos = "returned" /\ proc.failed \ SwallowedFaults # {}
           => proc.result = FallbackDict

\* every strategy failed and convert_document raised, yet the call returned
\* the fallback dict
C13_Witness ==
    /\ proc.pos = "returned"
    /\ oResult = AllFailed
    /\ "convert_document" \in proc.failed
    /\ proc.result = FallbackDict

(***************************************************************************)
(* C14.  After the semantic phase of a page whose elements all carry a     *)
(* semantic level, in the order (semantic_level, element_id): an element   *)
(* with a preceding element of lower level has exactly one parent, the     *)
(* nearest such element; an element without one has no parent (it is a     *)
(* root of the initial forest).                                            *)
(***************************************************************************)
C14_NearestLowerLevelParent ==
    (page.doc # 0 /\ \A k \in DOMAIN page.elems : page.elems[k].lvl > 0) =>
        \A k \in DOMAIN page.elems :
            ParentsOf(page.semMap, k) =
                IF NearestLower(page.elems, k) = 0 THEN {}
                ELSE {NearestLower(page.elems, k)}

(***************************************************************************)
(* C15.  A page of height 842 with a title of box (50,780,300,800)         *)
(* followed by a text of box (50,700,500,770), converted without fault:    *)
(* the forest has exactly one root, the title, whose only child is the     *)
(* text, and the root's image-space box is (50,42,300,62).                 *)
(***************************************************************************)
C15_TitleWithTextChild ==
    (/\ page.doc # 0
     /\ ScenarioPage(page.elems)
     /\ page.height = PdfHeight
     /\ page.fault = "none")
        => /\ page.tree.roots = <<1>>
           /\ page.tree.kids[1] = <<2>>
           /\ page.tree.kids[2] = <<>>
           /\ page.boxes[1] = <<50, 42, 300, 62>>

(***************************************************************************)
(* C16.  Every node of the final forest has an image-space box with        *)
(* x1 <= x2 and y1 <= y2, whatever box the detector reported.              *)
(***************************************************************************)
C16_OrderedImageBoxes ==
    ForestBuilt =>
        \A k \in DOMAIN page.boxes :
            /\ page.boxes[k][1] <= page.boxes[k][3]
            /\ page.boxes[k][2] <= page.boxes[k][4]

(***************************************************************************)
(* C17.  The classification is one-to-one with the detector's output:      *)
(* after any number of rounds the page has one element per detected item,  *)
(* and an item whose box is missing or of zero size is kept with a         *)
(* zero-size box and a flag.                                               *)
(***************************************************************************)
C17_OneElementPerDetectedItem ==
    /\ Len(PageElements(cls)) = Len(cls)
    /\ \A i \in DOMAIN cls :
           cls[i].item.bbox \in {NoBox, ZeroBox}
               => /\ cls[i].element # Dropped
                  /\ ZeroSize(cls[i].element.bbox)
                  /\ Flagged(cls[i].element)

(***************************************************************************)
(* C18.  A main_text item whose text matches a list-marker pattern and     *)
(* whose obj_type stands for text or title (paragraph, subtitle-level-1,   *)
(* section-header) is classified list_item, also when the footer, header   *)
(* or caption rule matches as well.                                        *)
(***************************************************************************)
C18_ListMarkerWins ==
    \A i \in DOMAIN cls :
        (/\ cls[i].path = "main_text"
         /\ cls[i].element # Dropped
         /\ cls[i].item.obj_type \in {"paragraph", "subtitle-level-1", "section-header"}
         /\ IsListItemText(CleanDoclingText(cls[i].item.text)))
            => cls[i].element.type = "list_item"

(***************************************************************************)
(* C19.  A main_text item of obj_type paragraph whose text begins with a   *)
(* bullet directly followed by content is classified list_item, wherever   *)
(* its box lies on the page.                                               *)
(***************************************************************************)
C19_BulletWithoutBlank ==
    \A i \in DOMAIN cls :
        (/\ cls[i].path = "main_text"
         /\ cls[i].element # Dropped
         /\ cls[i].item.obj_type = "paragraph"
         /\ BulletThenContent(CleanDoclingText(cls[i].item.text)))
            => cls[i].element.type = "list_item"

(***************************************************************************)
(* C20.  The sections partition the ordered element stream: taken in       *)
(* order, headings and contents of the sections are the stream itself;     *)
(* every title is the heading of a section of its own, carrying its text;  *)
(* every other element is in the content of the section started by the     *)
(* nearest title before it, or of a first section titled "Document Start"  *)
(* when no title comes before it.                                          *)
(***************************************************************************)
C20_SectionsPartitionStream ==
    sect # <<>> =>
        LET stream == sect.stream
            sections == AllSections
        IN /\ SectionStream(sections) = [k \in 1..Len(stream) |-> k]
           /\ \A k \in DOMAIN stream :
                  stream[k].type = "title" =>
                      \E i \in DOMAIN sections :
                          /\ sections[i].heading = k
                          /\ sections[i].title = stream[k].text
           /\ \A i \in DOMAIN sections :
                  /\ sections[i].heading # 0
                         => stream[sections[i].heading].type = "title"
                  /\ \A j \in DOMAIN sections[i].content :
                         LET k == sections[i].content[j]
                         IN /\ stream[k].type # "title"
                            /\ sections[i].heading = NearestTitle(stream, k)
                            /\ NearestTitle(stream, k) = 0
                                   => /\ i = 1
                                      /\ sections[i].title = "Document Start"

\* returned for a stream that starts with content, goes on with a title and
\* ends with content again
C20_Witness ==
    /\ sect # <<>>
    /\ sect.pos = "returned"
    /\ Len(sect.stream) >= 4
    /\ Len(sect.sections) >= 2
    /\ sect.sections[1].title = "Document Start"
    /\ sect.sections[1].content # <<>>
    /\ sect.sections[2].heading # 0
    /\ sect.sections[2].content # <<>>

(***************************************************************************)
(* C21.  A continuation from page p to page p + 1 is among the table       *)
(* continuations exactly when a table of page p is followed by a table of  *)
(* page p + 1 with no title between them; two such tables with a title     *)
(* between them are not flagged.                                           *)
(***************************************************************************)
C21_ContinuationUnlessTitleBetween ==
    (sect # <<>> /\ sect.pos \in {"layouts", "docling"}) =>
        \A p \in 1..(Len(sect.doc) - 1) :
            TablesWithoutTitleBetween(sect.doc, p)
                <=> \E k \in DOMAIN sect.table_continuations :
                        sect.table_continuations[k] =
                            [from_page |-> p, to_page |-> p + 1]

(***************************************************************************)
(* C22.  The status stream sends an event in its first round; a round that *)
(* observes a terminal status is the last one; and the stream ends the     *)
(* normal way only after an event carrying the terminal status observed.   *)
(***************************************************************************)
C22_StreamEndsOnTerminalEvent ==
    sse # <<>> =>
        /\ sse.polls >= 1 => sse.events # <<>>
        /\ sse.observed \in TerminalStates => sse.pos \in {"closed", "error"}
        /\ sse.pos = "closed" =>
               /\ sse.observed \in TerminalStates
               /\ sse.events # <<>>
               /\ sse.events[Len(sse.events)] = sse.observed
        /\ \A k \in DOMAIN sse.events :
               sse.events[k] \in TerminalStates \cup {"error"}
                   => k = Len(sse.events)

\* the stream ended the normal way after a status, a heartbeat and the
\* terminal status
C22_Witness ==
    /\ sse # <<>>
    /\ sse.pos = "closed"
    /\ Len(sse.events) >= 3
    /\ \E k \in 1..(Len(sse.events) - 1) : sse.events[k] = sse.events[k + 1]

(***************************************************************************)
(* C23.  A token whose key id is not found has the JWKS cache cleared and  *)
(* the lookup made again exactly once; when the key is not found again the *)
(* token is rejected with HTTP 401 "Unknown signing key"; a token without  *)
(* key id is rejected with HTTP 401 and no lookup; and no token gets past  *)
(* decode_token's lookup without a key found for its key id.               *)
(***************************************************************************)
C23_OneRetryThenReject ==
    auth # <<>> =>
        /\ auth.lookups <= 2
        /\ auth.clears = (IF auth.misses >= 1 THEN 1 ELSE 0)
        /\ (auth.misses >= 1 /\ auth.pos \in {"decode", "user", "done"})
               => auth.lookups = 2
        /\ auth.outcome.detail = "Unknown signing key"
               <=> (auth.pos = "done" /\ auth.misses = 2)
        /\ auth.outcome.detail = "Unknown signing key" => auth.outcome.status = 401
        /\ auth.kid = "" => auth.lookups = 0
        /\ auth.outcome.detail = "Token missing key ID"
               => auth.outcome.status = 401 /\ auth.lookups = 0
        /\ (auth.pos \in {"decode", "user"} \/ auth.outcome.detail = "payload"
               \/ (auth.kid # "" /\ auth.user # NoUser))
               => /\ auth.key = auth.kid
                  /\ auth.kid \in auth.cache

\* a token rejected after the second lookup
C23_Witness ==
    /\ auth # <<>>
    /\ auth.pos = "done"
    /\ auth.outcome = [status |-> 401, detail |-> "Unknown signing key"]
    /\ auth.clears = 1

(***************************************************************************)
(* C24.  require_admin returns the user it was given, unchanged, exactly   *)
(* when the user's roles hold admin or super_admin; for any other roles,   *)
(* none at all included, it raises HTTP 403.                               *)
(***************************************************************************)
C24_AdminOrForbidden ==
    (auth # <<>> /\ auth.pos = "done" /\ auth.user # NoUser) =>
        LET admin == /\ "roles" \in DOMAIN auth.user
                     /\ \E k \in DOMAIN auth.user.roles :
                            auth.user.roles[k] \in {"admin", "super_admin"}
        IN /\ admin => auth.outcome.status = 200 /\ auth.returned = auth.user
           /\ ~admin => auth.outcome.status = 403 /\ auth.returned = NoUser

\* a user whose only admin role is super_admin got through
C24_Witness ==
    /\ auth # <<>>
    /\ auth.pos = "done"
    /\ auth.returned # NoUser
    /\ "roles" \in DOMAIN auth.returned
    /\ \A k \in DOMAIN auth.returned.roles : auth.returned.roles[k] # "admin"

(***************************************************************************)
(* C25.  The metadata of the result returned for a document is the         *)
(* hierarchy metadata built from that document, or None, never the         *)
(* metadata of another document.                                           *)
(***************************************************************************)
C25_OwnMetadataOrNone ==
    docRuns # <<>> =>
        \A d \in Docs :
            docRuns.of[d].pos = "returned" => docRuns.of[d].metadata.doc \in {0, d}

(***************************************************************************)
(* C28.  The page list of the result of a document has one entry per page, *)
(* with page_number 1..num_pages in order, and the entry of a page whose   *)
(* round raised is the placeholder: no hierarchical_elements and           *)
(* has_hierarchy false.                                                    *)
(***************************************************************************)
C28_OneEntryPerPage ==
    docRuns # <<>> =>
        \A d \in Docs :
            (docRuns.of[d].pos = "returned" /\ docRuns.of[d].metadata.doc = d) =>
                LET pages == docRuns.of[d].metadata.pages
                IN /\ Len(pages) = docRuns.of[d].num_pages
                   /\ \A k \in DOMAIN pages :
                          /\ pages[k].page_number = k
                          /\ k \in docRuns.of[d].raised =>
                                 /\ pages[k].hierarchical_elements = 0
                                 /\ ~pages[k].has_hierarchy

(***************************************************************************)
(* C26.  Whenever process_with_fallback returns success = True, the        *)
(* returned document is not None: every strategy that reports success      *)
(* hands back a document, the custom-OCR path its mock document.           *)
(***************************************************************************)
C26_SuccessHasDocument ==
    /\ oResult.success => oResult.document # None
    /\ \A k \in DOMAIN oCalls :
           oCalls[k].success => oCalls[k].document # None

\* the custom OCR succeeded after three strategies failed, and the mock
\* document was returned
C26_Witness ==
    /\ oPos = "returned"
    /\ oResult.success
    /\ oResult.method_used = "image_ocr_docling"
    /\ oResult.document.kind = "mock"

(***************************************************************************)
(* C29.  Every temporary PDF created by the qpdf strategy or by a          *)
(* Ghostscript approach is deleted by the time the strategy returns, on    *)
(* success and on every failure path.                                      *)
(***************************************************************************)
C29_TempFilesDeleted ==
    \A k \in DOMAIN oCalls : oCalls[k].temp_files = 0

(***************************************************************************)
(* C27.  During one run of process_document_with_progress the step values  *)
(* handed to the progress callback never decrease from one report to the   *)
(* next.                                                                   *)
(***************************************************************************)
C27_ProgressNeverDecreases ==
    proc.pos # "idle" =>
        \A i \in 1..(Len(progress) - 1) : progress[i] <= progress[i + 1]

(***************************************************************************)
(* C30.  process_document_task is executed at most 4 times for one         *)
(* submission; the k-th retry is scheduled with a countdown of 60 k        *)
(* seconds and does not start before that; once the retries are exhausted  *)
(* the task ends with the error result; a callback is attempted only on    *)
(* the final execution, and at most one.                                   *)
(***************************************************************************)
C30_BoundedRetriesThenError ==
    task # <<>> =>
        /\ task.executions <= 4
        /\ Len(task.countdowns) <= 3
        /\ \A k \in DOMAIN task.countdowns : task.countdowns[k] = 60 * k
        /\ \A k \in DOMAIN task.countdowns :
               k + 1 \in DOMAIN task.starts
                   => task.starts[k + 1] >= task.ends[k] + 60 * k
        /\ Len(task.callbacks) <= 1
        /\ \A k \in DOMAIN task.callbacks :
               /\ task.pos = "done"
               /\ task.callbacks[k].execution = task.executions
               /\ task.callbacks[k].status = task.outcome
        /\ task.pos = "done" =>
               /\ task.outcome \in {"success", "error"}
               /\ task.outcome = "error" =>
                      task.executions = 4 /\ Len(task.countdowns) = 3
               /\ task.callback_url => Len(task.callbacks) = 1
        /\ task.pos # "done" =>
               /\ task.outcome = "none"
               /\ task.retries <= 3
               /\ Len(task.countdowns) = task.retries

\* the fourth execution failed: the error result was returned and the
\* failure callback attempted, which failed as well
C30_Witness ==
    /\ task # <<>>
    /\ task.pos = "done"
    /\ task.executions = 4
    /\ task.outcome = "error"
    /\ task.countdowns = <<60, 120, 180>>
    /\ Len(task.callbacks) = 1
    /\ ~task.callbacks[1].delivered

====
